---- MODULE Spec2Model ----
(***************************************************************************)
(* Subscription / promo-redemption core of the fitness backend             *)
(* (src/api/subscription/subscription.py).                                  *)
(*                                                                         *)
(* The document store is the only shared state.  Every request is a        *)
(* coroutine; each awaited store operation is one atomic step, taken       *)
(* together with the synchronous code that follows it up to the next       *)
(* await.  Time is counted in whole days.                                  *)
(***************************************************************************)
EXTENDS Integers, FiniteSets, Sequences, TLC

(* ------------------------------ bounds -------------------------------- *)
\* requests that may run concurrently
NumCalls == 2
\* users issuing requests
NumUsers == 2
\* the clock runs from 0 to MaxNow
MaxNow == 1
\* a promo code's max_uses ranges over 1..MaxUses
MaxUses == 2
\* duration_days of the promo code
PromoDays == 2
\* duration_days of the subscription plan
PlanDays == 1
\* extra_from_rewarded of a stored usage record ranges over 0..MaxExtra
MaxExtra == 1
\* codes_count of a promo batch ranges over 1..MaxCodesCount
MaxCodesCount == 2

(* -------------------------- program constants -------------------------- *)
\* grace_until = expires_at + timedelta(days=30)
GraceDays == 30

Users == 1..NumUsers
Codes == {"SPRING"}
\* codes that only code_random comes up with
FreshCodes == {"RND1", "RND2"}
AllCodes == Codes \cup FreshCodes
PlanCodes == {"month"}

\* an absent document (find_one / get returned None)
NoDoc == [present |-> FALSE]
\* no transaction id
NoTx == -1

VARIABLES
    now,          \* utcnow(), in days
    promos,       \* collection promo_codes: code -> document
    redemptions,  \* collection promo_redemptions: set of rows
    txs,          \* collection subscription_transactions: id -> document
    subs,         \* collection subscriptions: user -> document
    plans,        \* collection subscription_plans: code -> document
    usage,        \* collection ai_usage_monthly, this month: user -> document
    batches,      \* collection promo_code_batches: the names stored
    grants,       \* collection rewarded_grants: the nonces stored
    ai_requests,  \* collection ai_requests: set of rows
    ai_plans,     \* collection ai_plans: set of rows
    ai_threads,   \* collection ai_chat_threads: set of rows
    ai_messages,  \* collection ai_chat_messages: number of rows
    req           \* the requests in flight: position and local variables

vars == <<now, promos, redemptions, txs, subs, plans, usage, batches, grants,
          ai_requests, ai_plans, ai_threads, ai_messages, req>>

store == <<promos, redemptions, txs, subs, plans, usage, batches, grants,
           ai_requests, ai_plans, ai_threads, ai_messages>>

\* the collections of the promo batches and of the AI endpoints
aux == <<batches, grants, ai_requests, ai_plans, ai_threads, ai_messages>>

\* a request slot before its request arrives
Idle ==
    [pc |-> "idle", kind |-> "none", user |-> 0, code |-> "", tx |-> NoTx,
     st |-> "", dur |-> 0, plan_code |-> "", source |-> "", add_days |-> 0,
     u_now |-> 0, existing |-> NoDoc, txdoc |-> NoDoc, plan_found |-> FALSE,
     err |-> "", result |-> "", saw |-> "", marked |-> FALSE,
     delta |-> 0, ext |-> 0, writes |-> 0, out |-> <<>>,
     claimed |-> NoDoc, token |-> <<>>, expected |-> <<>>, usage |-> NoDoc,
     c_now |-> 0, attempts |-> 0, created |-> 0, cont |-> "",
     premium |-> FALSE, granted |-> FALSE, nonce |-> "", count |-> 0,
     arg |-> NoDoc, reroll_used |-> FALSE, plan_id |-> NoTx, version |-> 0,
     thread |-> NoTx]

Max(a, b) == IF a >= b THEN a ELSE b

(* ----------------------------- pure code ------------------------------ *)

\* the instant the extension counts from: base = now, moved to the stored
\* expiry when a subscription exists and has not lapsed
ExtendBaseFromNow(existing, t) == t

ExtendBase(existing, t) ==
    IF existing.present /\ existing.expires_at > t
    THEN existing.expires_at
    ELSE t

\* the document upsert_subscription would write if the grace window were
\* counted from the base instead of from the new expiry
UpsertDocGraceFromBase(existing, t, plan_code, source, add_days, tx_id) ==
    LET base == ExtendBase(existing, t)
        started_at == IF existing.present /\ existing.expires_at > t
                      THEN existing.started_at ELSE t
        expires_at == base + add_days
    IN  [present |-> TRUE, plan_code |-> plan_code, source |-> source,
         started_at |-> started_at, expires_at |-> expires_at,
         grace_until |-> base + GraceDays, auto_renew |-> TRUE,
         last_transaction_id |-> tx_id, status |-> "active"]

\* the document upsert_subscription would write if it kept the stored
\* auto_renew of an existing subscription
UpsertDocKeepRenew(existing, t, plan_code, source, add_days, tx_id) ==
    LET base == ExtendBase(existing, t)
        started_at == IF existing.present /\ existing.expires_at > t
                      THEN existing.started_at ELSE t
        expires_at == base + add_days
    IN  [present |-> TRUE, plan_code |-> plan_code, source |-> source,
         started_at |-> started_at, expires_at |-> expires_at,
         grace_until |-> expires_at + GraceDays,
         auto_renew |-> IF existing.present THEN existing.auto_renew ELSE TRUE,
         last_transaction_id |-> tx_id,
         status |-> IF existing.present THEN existing.status ELSE "active"]

\* the document upsert_subscription writes
UpsertDoc(existing, t, plan_code, source, add_days, tx_id) ==
    LET base == ExtendBase(existing, t)
        started_at == IF existing.present /\ existing.expires_at > t
                      THEN existing.started_at ELSE t
        expires_at == base + add_days
    IN  [present |-> TRUE, plan_code |-> plan_code, source |-> source,
         started_at |-> started_at, expires_at |-> expires_at,
         grace_until |-> expires_at + GraceDays, auto_renew |-> TRUE,
         last_transaction_id |-> tx_id, status |-> "active"]

\* the validation of activate_promo, without the check of expires_at
PromoValidationNoExpiry(promo, t) ==
    IF ~promo.present THEN "invalid_code"
    ELSE IF promo.status # "active" THEN "disabled"
    ELSE IF promo.duration_days <= 0 THEN "invalid_duration"
    ELSE "ok"

\* the validation of activate_promo
PromoValidation(promo, t) ==
    IF ~promo.present THEN "invalid_code"
    ELSE IF promo.status # "active" THEN "disabled"
    ELSE IF promo.expires_at # 0 /\ t >= promo.expires_at THEN "expired"
    ELSE IF promo.duration_days <= 0 THEN "invalid_duration"
    ELSE "ok"

\* the filter of promo_atomic_claim, without the use cap
ClaimMatchesNoCap(doc, t) ==
    /\ doc.present
    /\ doc.status = "active"
    /\ (doc.expires_at = 0 \/ doc.expires_at > t)

\* the filter of promo_atomic_claim, with $lte in place of $lt
ClaimMatchesOffByOne(doc, t) ==
    /\ doc.present
    /\ doc.status = "active"
    /\ (doc.expires_at = 0 \/ doc.expires_at > t)
    /\ doc.used_count <= doc.max_uses

\* the filter of promo_atomic_claim, with $gte in place of $gt on expires_at
ClaimMatchesOnExpiryDay(doc, t) ==
    /\ doc.present
    /\ doc.status = "active"
    /\ (doc.expires_at = 0 \/ doc.expires_at >= t)
    /\ doc.used_count < doc.max_uses

\* the filter of promo_atomic_claim (expires_at = 0 stands for None)
ClaimMatches(doc, t) ==
    /\ doc.present
    /\ doc.status = "active"
    /\ (doc.expires_at = 0 \/ doc.expires_at > t)
    /\ doc.used_count < doc.max_uses

\* a promo_atomic_rollback whose filter matches no document
RollbackMatchesNever(doc) == FALSE

\* the filter of promo_atomic_rollback, with 1 in place of 0
RollbackMatchesAboveOne(doc) == doc.present /\ doc.used_count > 1

\* the filter of promo_atomic_rollback
RollbackMatches(doc) == doc.present /\ doc.used_count > 0

\* compute_subscription_status with now > exp in place of now >= exp
StatusStrictExpiry(sub, t) ==
    IF sub.expires_at = 0 THEN <<"expired", FALSE, FALSE>>
    ELSE IF t > sub.expires_at
         THEN IF sub.grace_until # 0 /\ t < sub.grace_until
              THEN <<"grace", FALSE, TRUE>>
              ELSE <<"expired", FALSE, FALSE>>
    ELSE IF ~sub.auto_renew THEN <<"canceled", TRUE, FALSE>>
    ELSE <<"active", TRUE, FALSE>>

\* (status, is_active, in_grace) of a subscription at instant t; an
\* expires_at or grace_until of 0 stands for None
compute_subscription_status(sub, t) ==
    IF sub.expires_at = 0 THEN <<"expired", FALSE, FALSE>>
    ELSE IF t >= sub.expires_at
         THEN IF sub.grace_until # 0 /\ t < sub.grace_until
              THEN <<"grace", FALSE, TRUE>>
              ELSE <<"expired", FALSE, FALSE>>
    ELSE IF ~sub.auto_renew THEN <<"canceled", TRUE, FALSE>>
    ELSE <<"active", TRUE, FALSE>>

(* --------------------------- request helpers --------------------------- *)

\* the response is sent: the coroutine's locals are gone, the outcome and
\* the tallies of what the request did stay for inspection
Finish(r, res) ==
    [Idle EXCEPT !.pc = "done", !.result = res, !.kind = r.kind,
                 !.user = r.user, !.code = r.code, !.tx = r.tx, !.st = r.st,
                 !.saw = r.saw, !.err = r.err, !.marked = r.marked,
                 !.plan_found = r.plan_found, !.delta = r.delta,
                 !.ext = r.ext, !.writes = r.writes]

\* requests are numbered in the order they arrive
Arrives(p) ==
    /\ req[p].pc = "idle"
    /\ \A q \in DOMAIN req : q < p => req[q].pc # "idle"

\* a delete that finds the row only on the 'limit reached' path
OwnRowOnLimitOnly(r) ==
    IF r.err = "limit" THEN {x \in redemptions : x.tx = r.tx} ELSE {}

\* a delete that takes every row of the code with it
OwnRowWholeCode(r) == {x \in redemptions : x.code = r.code}

\* a delete that finds no row
OwnRowNotFound(r) == {}

\* the row a request inserted is identified by its transaction id
OwnRow(r) == {x \in redemptions : x.tx = r.tx}

(* --------------------------- activate_promo ---------------------------- *)

\* PromoCode.find_one and the validation that follows it
activate_promo_find(p) ==
    /\ Arrives(p)
    /\ \E u \in Users, c \in Codes :
         LET v == PromoValidation(promos[c], now)
             r == [req[p] EXCEPT !.kind = "activate_promo", !.user = u, !.code = c]
         IN  req' = [req EXCEPT ![p] =
                 IF v # "ok" THEN Finish(r, v)
                 ELSE [r EXCEPT !.pc = "ap_tx_insert",
                                !.dur = promos[c].duration_days]]
    /\ UNCHANGED <<now, store>>

\* tx.insert(): the transaction gets a fresh id (the request's number)
activate_promo_tx_insert(p) ==
    /\ req[p].pc = "ap_tx_insert"
    /\ txs' = [txs EXCEPT ![p] =
                 [present |-> TRUE, user |-> req[p].user, source |-> "promo",
                  plan_code |-> "promo", status |-> "verified"]]
    /\ req' = [req EXCEPT ![p] =
                 [@ EXCEPT !.pc = "ap_red_insert", !.tx = p, !.writes = @ + 1]]
    /\ UNCHANGED <<now, promos, redemptions, subs, plans, usage, aux>>

\* a collection without the unique index refuses nothing
NoUniqueIndex(u, c) == FALSE

\* a unique index on promo_code_id alone
UniqueOnCodeOnly(u, c) == \E x \in redemptions : x.code = c

\* the unique index of promo_redemptions on (user_id, promo_code_id)
RedemptionExists(u, c) == \E x \in redemptions : x.user = u /\ x.code = c

\* redemption.insert(): refused with DuplicateKeyError by the unique index;
\* when it returns, promo_atomic_claim is entered and builds its filter
\* with now = _utcnow_naive() before the update is sent
activate_promo_redemption_insert(p) ==
    /\ req[p].pc = "ap_red_insert"
    /\ IF RedemptionExists(req[p].user, req[p].code)
       THEN /\ req' = [req EXCEPT ![p] =
                        [@ EXCEPT !.pc = "ap_tx_delete", !.err = "already_used"]]
            /\ UNCHANGED redemptions
       ELSE /\ redemptions' = redemptions \cup
                   {[user |-> req[p].user, code |-> req[p].code, tx |-> req[p].tx]}
            /\ req' = [req EXCEPT ![p] =
                        [@ EXCEPT !.pc = "ap_claim", !.c_now = now,
                                  !.writes = @ + 1]]
    /\ UNCHANGED <<now, promos, txs, subs, plans, usage, aux>>

\* promo_atomic_claim: one conditional find_one_and_update that returns
\* the document after the update (claimed), or nothing; the filter
\* compares expires_at with the clock read when the filter was built
activate_promo_claim(p) ==
    /\ req[p].pc = "ap_claim"
    /\ LET c == req[p].code
           after == [promos[c] EXCEPT !.used_count = @ + 1]
       IN
       IF ClaimMatches(promos[c], req[p].c_now)
       THEN /\ promos' = [promos EXCEPT ![c] = after]
            /\ req' = [req EXCEPT ![p] =
                 IF after.duration_days <= 0
                 THEN [@ EXCEPT !.pc = "ap_rollback", !.err = "invalid_duration",
                                !.c_now = 0,
                                !.claimed = after,
                                !.delta = @ + 1, !.writes = @ + 1]
                 ELSE [@ EXCEPT !.pc = "ap_find_existing", !.c_now = 0,
                                !.dur = after.duration_days,
                                !.claimed = after,
                                !.delta = @ + 1, !.writes = @ + 1]]
       ELSE /\ req' = [req EXCEPT ![p] =
                        [@ EXCEPT !.pc = "ap_red_delete", !.err = "limit",
                                  !.c_now = 0]]
            /\ UNCHANGED promos
    /\ UNCHANGED <<now, redemptions, txs, subs, plans, usage, aux>>

\* Subscription.find_one for the plan code, then the call of
\* upsert_subscription up to its own find_one (now = utcnow())
activate_promo_find_existing(p) ==
    /\ req[p].pc = "ap_find_existing"
    /\ LET e == subs[req[p].user] IN
       req' = [req EXCEPT ![p] =
                 [@ EXCEPT !.pc = "up_find",
                           !.plan_code = IF e.present THEN e.plan_code ELSE "promo",
                           !.source = "promo",
                           !.add_days = req[p].dur,
                           !.claimed = NoDoc,
                           !.u_now = now]]
    /\ UNCHANGED <<now, store>>

\* promo_atomic_rollback: conditional decrement
activate_promo_rollback(p) ==
    /\ req[p].pc = "ap_rollback"
    /\ LET c == req[p].code IN
       IF RollbackMatches(promos[c])
       THEN /\ promos' = [promos EXCEPT ![c].used_count = @ - 1]
            /\ req' = [req EXCEPT ![p] =
                        [@ EXCEPT !.pc = "ap_red_delete", !.delta = @ - 1,
                                  !.claimed = NoDoc, !.writes = @ + 1]]
       ELSE /\ req' = [req EXCEPT ![p] =
                        [@ EXCEPT !.pc = "ap_red_delete", !.claimed = NoDoc]]
            /\ UNCHANGED promos
    /\ UNCHANGED <<now, redemptions, txs, subs, plans, usage, aux>>

\* redemption.delete() of the row this request inserted
activate_promo_redemption_delete(p) ==
    /\ req[p].pc = "ap_red_delete"
    /\ redemptions' = redemptions \ OwnRow(req[p])
    /\ req' = [req EXCEPT ![p] = [@ EXCEPT !.pc = "ap_tx_delete", !.writes = @ + 1]]
    /\ UNCHANGED <<now, promos, txs, subs, plans, usage, aux>>

\* tx.delete() of the transaction this request inserted, then the raise
activate_promo_tx_delete(p) ==
    /\ req[p].pc = "ap_tx_delete"
    /\ txs' = [txs EXCEPT ![req[p].tx] = NoDoc]
    /\ req' = [req EXCEPT ![p] = [Finish(@, req[p].err) EXCEPT !.writes = @ + 1]]
    /\ UNCHANGED <<now, promos, redemptions, subs, plans, usage, aux>>

(* --------------------- failures of the compensation ------------------- *)

\* promo_atomic_rollback raises: it is called outside any try block, so
\* its exception leaves activate_promo at once, the two deletes are not
\* attempted and the caller gets this exception
activate_promo_rollback_fail(p) ==
    /\ req[p].pc = "ap_rollback"
    /\ req' = [req EXCEPT ![p] = Finish(@, "compensation_error")]
    /\ UNCHANGED <<now, store>>

\* redemption.delete() raises: except Exception: pass
activate_promo_redemption_delete_fail(p) ==
    /\ req[p].pc = "ap_red_delete"
    /\ req' = [req EXCEPT ![p] = [@ EXCEPT !.pc = "ap_tx_delete"]]
    /\ UNCHANGED <<now, store>>

\* tx.delete() raises: except Exception: pass, then the raise
activate_promo_tx_delete_fail(p) ==
    /\ req[p].pc = "ap_tx_delete"
    /\ req' = [req EXCEPT ![p] = Finish(@, req[p].err)]
    /\ UNCHANGED <<now, store>>

(* ------------------------- upsert_subscription ------------------------- *)

\* existing = Subscription.find_one(user_id)
upsert_subscription_find(p) ==
    /\ req[p].pc = "up_find"
    /\ req' = [req EXCEPT ![p] =
                 [@ EXCEPT !.pc = "up_write", !.existing = subs[req[p].user]]]
    /\ UNCHANGED <<now, store>>

\* where a request goes when upsert_subscription raised
Raised(r, e) ==
    IF r.kind = "activate_promo"
    THEN [r EXCEPT !.pc = "ap_rollback", !.err = e]
    ELSE Finish(r, e)

\* existing.save() writes the whole document read earlier; sub.insert()
\* is refused by the unique index on user_id when a row appeared meanwhile
upsert_subscription_write(p) ==
    /\ req[p].pc = "up_write"
    /\ LET r == req[p]
           u == r.user
           doc == UpsertDoc(r.existing, r.u_now, r.plan_code, r.source,
                            r.add_days, r.tx)
       IN  IF ~r.existing.present /\ subs[u].present
           THEN /\ req' = [req EXCEPT ![p] = Raised(r, "duplicate_key")]
                /\ UNCHANGED subs
           ELSE /\ subs' = [subs EXCEPT ![u] = doc]
                /\ req' = [req EXCEPT ![p] =
                     [Finish(r, "ok") EXCEPT !.ext = @ + 1, !.writes = @ + 1]]
    /\ UNCHANGED <<now, promos, redemptions, txs, plans, usage, aux>>

\* the store fails the write of upsert_subscription: nothing is written
upsert_subscription_fail(p) ==
    /\ req[p].pc = "up_write"
    /\ req' = [req EXCEPT ![p] = Raised(req[p], "store_error")]
    /\ UNCHANGED <<now, store>>

(* ------------------------------ purchase ------------------------------- *)

\* SubscriptionPlan.find_one(code == c, status == "active")
FindActivePlan(c) ==
    IF c \in DOMAIN plans /\ plans[c].present /\ plans[c].status = "active"
    THEN plans[c]
    ELSE NoDoc

\* purchase: the plan lookup
purchase_find_plan(p) ==
    /\ Arrives(p)
    /\ \E u \in Users, c \in PlanCodes :
         LET r == [req[p] EXCEPT !.kind = "purchase", !.user = u, !.plan_code = c]
         IN  req' = [req EXCEPT ![p] =
                 IF FindActivePlan(c).present
                 THEN [r EXCEPT !.pc = "pu_tx_insert"]
                 ELSE Finish(r, "plan_not_found")]
    /\ UNCHANGED <<now, store>>

\* purchase: tx.insert() of the pending transaction
purchase_tx_insert(p) ==
    /\ req[p].pc = "pu_tx_insert"
    /\ txs' = [txs EXCEPT ![p] =
                 [present |-> TRUE, user |-> req[p].user, source |-> "web",
                  plan_code |-> req[p].plan_code, status |-> "pending"]]
    /\ req' = [req EXCEPT ![p] =
                 [@ EXCEPT !.pc = "pu_sub_find", !.tx = p, !.writes = @ + 1]]
    /\ UNCHANGED <<now, promos, redemptions, subs, plans, usage, aux>>

\* purchase: Subscription.find_one, then the response with the computed
\* status of the subscription found
purchase_sub_find(p) ==
    /\ req[p].pc = "pu_sub_find"
    /\ LET sub == subs[req[p].user] IN
       req' = [req EXCEPT ![p] =
                 [Finish(@, "ok") EXCEPT !.out =
                     IF sub.present THEN compute_subscription_status(sub, now)
                     ELSE <<"none", FALSE, FALSE>>]]
    /\ UNCHANGED <<now, store>>

(* ------------------------------ create_plan ---------------------------- *)

\* create_plan: SubscriptionPlan.find_one(code); 409 if the code exists
\* (codes are given without surrounding blanks)
create_plan_find(p) ==
    /\ Arrives(p)
    /\ \E c \in PlanCodes, st \in {"active", "retired"} :
         LET r == [req[p] EXCEPT !.kind = "create_plan", !.plan_code = c,
                                 !.st = st]
         IN  req' = [req EXCEPT ![p] =
                       IF plans[c].present THEN Finish(r, "conflict")
                       ELSE [r EXCEPT !.pc = "pl_insert"]]
    /\ UNCHANGED <<now, store>>

\* create_plan: doc.insert(); the unique index on code refuses it when
\* the plan was created meanwhile
create_plan_insert(p) ==
    /\ req[p].pc = "pl_insert"
    /\ LET c == req[p].plan_code IN
       IF plans[c].present
       THEN /\ req' = [req EXCEPT ![p] =
                        Finish([@ EXCEPT !.err = "duplicate_key"], "duplicate_key")]
            /\ UNCHANGED plans
       ELSE /\ plans' = [plans EXCEPT ![c] =
                          [present |-> TRUE, duration_days |-> PlanDays,
                           status |-> req[p].st]]
            /\ req' = [req EXCEPT ![p] = [Finish(@, "ok") EXCEPT !.writes = @ + 1]]
    /\ UNCHANGED <<now, promos, redemptions, txs, subs, usage, aux>>

(* ---------------------------- verify_purchase -------------------------- *)

\* if status_str == "verified": the replay branch is taken
NeverReplay(status) == FALSE

IsReplay(status) == status = "verified"

\* verify_purchase: SubscriptionTransaction.get, the ownership check, the
\* replay check and the checks of provider and receipt
verify_purchase_get(p) ==
    /\ Arrives(p)
    /\ \E u \in Users, t \in DOMAIN txs, valid \in BOOLEAN :
         LET tx == txs[t]
             r == [req[p] EXCEPT !.kind = "verify", !.user = u, !.tx = t]
         IN  req' = [req EXCEPT ![p] =
                 IF ~tx.present \/ tx.user # u THEN Finish(r, "tx_not_found")
                 ELSE IF IsReplay(tx.status)
                      THEN [r EXCEPT !.pc = "vp_replay_find", !.saw = tx.status,
                                     !.txdoc = tx]
                 ELSE IF ~valid
                      THEN Finish([r EXCEPT !.saw = tx.status], "bad_request")
                 ELSE [r EXCEPT !.pc = "vp_plan_find", !.saw = tx.status,
                                !.txdoc = tx]]
    /\ UNCHANGED <<now, store>>

\* verify_purchase, replay: Subscription.find_one, then the response
verify_purchase_replay(p) ==
    /\ req[p].pc = "vp_replay_find"
    /\ req' = [req EXCEPT ![p] = Finish(@, "ok")]
    /\ UNCHANGED <<now, store>>

\* verify_purchase: the plan lookup; the local copy of the store blob is
\* set to failed or verified
verify_purchase_find_plan(p) ==
    /\ req[p].pc = "vp_plan_find"
    /\ LET plan == FindActivePlan(req[p].txdoc.plan_code) IN
       req' = [req EXCEPT ![p] =
           IF plan.present
           THEN [@ EXCEPT !.pc = "vp_save_verified", !.plan_found = TRUE,
                          !.txdoc.status = "verified",
                          !.plan_code = req[p].txdoc.plan_code,
                          !.add_days = plan.duration_days]
           ELSE [@ EXCEPT !.pc = "vp_save_failed", !.txdoc.status = "failed"]]
    /\ UNCHANGED <<now, store>>

\* verify_purchase: tx.save() of the failed transaction, then the 400
verify_purchase_save_failed(p) ==
    /\ req[p].pc = "vp_save_failed"
    /\ txs' = [txs EXCEPT ![req[p].tx] = req[p].txdoc]
    /\ req' = [req EXCEPT ![p] =
                 [Finish(@, "plan_not_found") EXCEPT !.writes = @ + 1]]
    /\ UNCHANGED <<now, promos, redemptions, subs, plans, usage, aux>>

\* verify_purchase: tx.save() of the verified transaction, then the call
\* of upsert_subscription up to its find_one
verify_purchase_save_verified(p) ==
    /\ req[p].pc = "vp_save_verified"
    /\ txs' = [txs EXCEPT ![req[p].tx] = req[p].txdoc]
    /\ req' = [req EXCEPT ![p] =
                 [@ EXCEPT !.pc = "up_find", !.marked = TRUE,
                           !.source = req[p].txdoc.source,
                           !.u_now = now, !.writes = @ + 1]]
    /\ UNCHANGED <<now, promos, redemptions, subs, plans, usage, aux>>

(* --------------------------- yookassa_webhook -------------------------- *)

SuccessStatuses == {"succeeded", "paid", "success"}
\* the failure set, with only "failed" in it
FailureStatusesOnlyFailed == {"failed"}

FailureStatuses == {"failed", "canceled", "cancelled", "refunded"}
\* the provider statuses the requests of the model carry
WebhookStatuses == {"succeeded", "failed", "canceled", "refunded", "pending"}

\* tokens are sequences of characters; " " is white space
RECURSIVE LStrip(_)
LStrip(s) == IF s # <<>> /\ Head(s) = " " THEN LStrip(Tail(s)) ELSE s

RECURSIVE RStrip(_)
RStrip(s) ==
    IF s # <<>> /\ s[Len(s)] = " " THEN RStrip(SubSeq(s, 1, Len(s) - 1)) ELSE s

\* str.strip()
Strip(s) == RStrip(LStrip(s))

\* the values of YOOKASSA_WEBHOOK_TOKEN (<<>>: not set) and of the
\* X-Webhook-Token header (<<>>: not sent) the requests of the model carry
EnvTokens == {<<>>, <<"s">>}
HeaderTokens == {<<>>, <<"x">>, <<" ", "s">>}

\* webhook_token_ok without the refusal of an empty configured token
TokenOkUnconfigured(x, env) == Strip(x) = Strip(env)

\* webhook_token_ok: the header against the configured token
webhook_token_ok(x, env) ==
    IF Strip(env) = <<>> THEN FALSE ELSE Strip(x) = Strip(env)

\* yookassa_webhook: the token check, the parse of transaction_id (NoTx
\* stands for a malformed id), SubscriptionTransaction.get and the branch
\* on the provider status; the webhook's user is the transaction's owner
yookassa_webhook_get(p) ==
    /\ Arrives(p)
    /\ \E x \in HeaderTokens, env \in EnvTokens :
         LET a == [req[p] EXCEPT !.kind = "webhook", !.token = x, !.expected = env]
             keep(f) == [f EXCEPT !.token = x, !.expected = env]
         IN  IF ~webhook_token_ok(x, env)
             THEN req' = [req EXCEPT ![p] = keep(Finish(a, "unauthorized"))]
             ELSE \E t \in DOMAIN txs \cup {NoTx}, st \in WebhookStatuses :
                    LET r == [a EXCEPT !.tx = t, !.st = st] IN
                    req' = [req EXCEPT ![p] =
                      IF t = NoTx THEN keep(Finish(a, "invalid_transaction_id"))
                      ELSE IF ~txs[t].present THEN keep(Finish(r, "tx_not_found"))
                      ELSE [r EXCEPT !.user = txs[t].user, !.saw = txs[t].status,
                                     !.txdoc = txs[t],
                                     !.pc = IF st \in SuccessStatuses
                                               THEN "wh_plan_find"
                                            ELSE IF st \in FailureStatuses
                                               THEN "wh_save_failed"
                                            ELSE "wh_save_other"]]
    /\ UNCHANGED <<now, store>>

\* yookassa_webhook, success: the plan lookup; the store blob is set to
\* verified whether or not the plan was found
yookassa_webhook_find_plan(p) ==
    /\ req[p].pc = "wh_plan_find"
    /\ LET plan == FindActivePlan(req[p].txdoc.plan_code) IN
       req' = [req EXCEPT ![p] =
           [@ EXCEPT !.pc = "wh_save_verified", !.plan_found = plan.present,
                     !.token = <<>>, !.expected = <<>>,
                     !.txdoc.status = "verified",
                     !.plan_code = req[p].txdoc.plan_code,
                     !.add_days = IF plan.present THEN plan.duration_days ELSE 0]]
    /\ UNCHANGED <<now, store>>

\* yookassa_webhook, success: tx.save(), then upsert_subscription if the
\* plan was found
yookassa_webhook_save_verified(p) ==
    /\ req[p].pc = "wh_save_verified"
    /\ txs' = [txs EXCEPT ![req[p].tx] = req[p].txdoc]
    /\ req' = [req EXCEPT ![p] =
           IF req[p].plan_found
           THEN [@ EXCEPT !.pc = "up_find", !.marked = TRUE,
                          !.source = req[p].txdoc.source,
                          !.u_now = now, !.writes = @ + 1]
           ELSE [Finish(@, "ok") EXCEPT !.marked = TRUE, !.writes = @ + 1]]
    /\ UNCHANGED <<now, promos, redemptions, subs, plans, usage, aux>>

\* yookassa_webhook, failure: the store blob is set to failed and saved
yookassa_webhook_save_failed(p) ==
    /\ req[p].pc = "wh_save_failed"
    /\ txs' = [txs EXCEPT ![req[p].tx] = [req[p].txdoc EXCEPT !.status = "failed"]]
    /\ req' = [req EXCEPT ![p] = [Finish(@, "ok") EXCEPT !.writes = @ + 1]]
    /\ UNCHANGED <<now, promos, redemptions, subs, plans, usage, aux>>

\* yookassa_webhook, any other status: the transaction is saved as read
yookassa_webhook_save_other(p) ==
    /\ req[p].pc = "wh_save_other"
    /\ txs' = [txs EXCEPT ![req[p].tx] = req[p].txdoc]
    /\ req' = [req EXCEPT ![p] = [Finish(@, "ok") EXCEPT !.writes = @ + 1]]
    /\ UNCHANGED <<now, promos, redemptions, subs, plans, usage, aux>>

(* ---------------------------- get_subscription ------------------------- *)

\* get_subscription: Subscription.find_one, then the computed status
get_subscription(p) ==
    /\ Arrives(p)
    /\ \E u \in Users :
         LET r == [req[p] EXCEPT !.kind = "get_subscription", !.user = u]
             sub == subs[u]
         IN  req' = [req EXCEPT ![p] =
                 [Finish(r, "ok") EXCEPT !.out =
                     IF sub.present THEN compute_subscription_status(sub, now)
                     ELSE <<"none", FALSE, FALSE>>]]
    /\ UNCHANGED <<now, store>>

(* --------------------------- cancel_subscription ----------------------- *)

\* a cancellation that also ends the grace window
CancelDocNoGrace(sub) ==
    [sub EXCEPT !.auto_renew = FALSE, !.status = "canceled", !.grace_until = 0]

\* sub.auto_renew = False; sub.status = canceled
CancelDoc(sub) == [sub EXCEPT !.auto_renew = FALSE, !.status = "canceled"]

\* cancel_subscription: Subscription.find_one; without a subscription the
\* call returns ok at once
cancel_subscription_find(p) ==
    /\ Arrives(p)
    /\ \E u \in Users :
         LET r == [req[p] EXCEPT !.kind = "cancel", !.user = u] IN
         req' = [req EXCEPT ![p] =
                   IF subs[u].present
                   THEN [r EXCEPT !.pc = "ca_save", !.existing = subs[u]]
                   ELSE Finish(r, "ok")]
    /\ UNCHANGED <<now, store>>

\* cancel_subscription: sub.save() of the document read, changed
cancel_subscription_save(p) ==
    /\ req[p].pc = "ca_save"
    /\ subs' = [subs EXCEPT ![req[p].user] = CancelDoc(req[p].existing)]
    /\ req' = [req EXCEPT ![p] = [Finish(@, "ok") EXCEPT !.writes = @ + 1]]
    /\ UNCHANGED <<now, promos, redemptions, txs, plans, usage, aux>>

(* ------------------------------ create_promo --------------------------- *)

\* a store in which no promo code is ever found
PromoNeverStored(c) == FALSE

\* a PromoCode document with this code is stored (PromoCode.find_one, and
\* the unique index on code)
PromoStored(c) == promos[c].present

\* create_promo: PromoCode.find_one(code); 409 if the code exists
create_promo_find(p) ==
    /\ Arrives(p)
    /\ \E c \in Codes, n \in 1..MaxUses :
         LET r == [req[p] EXCEPT !.kind = "create_promo", !.code = c, !.dur = n] IN
         req' = [req EXCEPT ![p] =
                   IF PromoStored(c) THEN Finish(r, "conflict")
                   ELSE [r EXCEPT !.pc = "cp_insert"]]
    /\ UNCHANGED <<now, store>>

\* create_promo: doc.insert() with used_count = 0; the unique index on
\* code refuses it when the code was created meanwhile
create_promo_insert(p) ==
    /\ req[p].pc = "cp_insert"
    /\ LET c == req[p].code IN
       IF PromoStored(c)
       THEN /\ req' = [req EXCEPT ![p] =
                        Finish([@ EXCEPT !.err = "duplicate_key"], "duplicate_key")]
            /\ UNCHANGED promos
       ELSE /\ promos' = [promos EXCEPT ![c] =
                           [present |-> TRUE, status |-> "active", expires_at |-> 0,
                            duration_days |-> PromoDays, max_uses |-> req[p].dur,
                            used_count |-> 0]]
            /\ req' = [req EXCEPT ![p] = [Finish(@, "ok") EXCEPT !.writes = @ + 1]]
    /\ UNCHANGED <<now, redemptions, txs, subs, plans, usage, aux>>

(* --------------------------- create_promo_batch ------------------------ *)

\* attempts allowed per code of a batch: max_attempts = codes_count * 30
AttemptsPerCode == 30

\* names of the batches
BatchNames == {"b1"}

\* create_promo_batch(name, duration PromoDays, max_uses_per_code n,
\* codes_count k): batch.insert(), refused by the unique index on name
create_promo_batch_insert(p) ==
    /\ Arrives(p)
    /\ \E b \in BatchNames, n \in 1..MaxUses, k \in 1..MaxCodesCount :
         LET r == [req[p] EXCEPT !.kind = "create_promo_batch", !.dur = n,
                                 !.count = k]
         IN
         IF b \in batches
         THEN /\ req' = [req EXCEPT ![p] = Finish(r, "conflict")]
              /\ UNCHANGED batches
         ELSE /\ batches' = batches \cup {b}
              /\ req' = [req EXCEPT ![p] =
                          [r EXCEPT !.pc = "cb_code_insert", !.writes = @ + 1]]
    /\ UNCHANGED <<now, promos, redemptions, txs, subs, plans, usage, grants,
                   ai_requests, ai_plans, ai_threads, ai_messages>>

\* the loop of create_promo_batch after a turn: it goes on while
\* created < codes_count and attempts < max_attempts, and a batch left
\* short of codes is answered with 500
AfterTurn(r) ==
    IF r.created < r.count /\ r.attempts < r.count * AttemptsPerCode
    THEN r
    ELSE [Finish(r, IF r.created # r.count THEN "incomplete" ELSE "ok")
             EXCEPT !.created = r.created]

\* create_promo_batch, one turn of the loop: c.insert() of a code drawn at
\* random by code_random, a code already stored or a new one; a
\* DuplicateKeyError is swallowed and the loop tries again
create_promo_batch_code_insert(p) ==
    /\ req[p].pc = "cb_code_insert"
    /\ \E c \in AllCodes :
         LET r == [req[p] EXCEPT !.attempts = @ + 1] IN
         IF PromoStored(c)
         THEN /\ req' = [req EXCEPT ![p] = AfterTurn(r)]
              /\ UNCHANGED promos
         ELSE /\ promos' = [promos EXCEPT ![c] =
                             [present |-> TRUE, status |-> "active",
                              expires_at |-> 0, duration_days |-> PromoDays,
                              max_uses |-> req[p].dur, used_count |-> 0]]
              /\ req' = [req EXCEPT ![p] =
                          AfterTurn([r EXCEPT !.created = @ + 1,
                                              !.writes = @ + 1])]
    /\ UNCHANGED <<now, redemptions, txs, subs, plans, usage, aux>>

(* ------------------------------ environment ---------------------------- *)

\* the catalog's administrator retires a plan
RetirePlan ==
    /\ \E c \in PlanCodes :
         /\ plans[c].present /\ plans[c].status = "active"
         /\ plans' = [plans EXCEPT ![c].status = "retired"]
    /\ UNCHANGED <<now, promos, redemptions, txs, subs, usage, aux, req>>

\* the promo codes' administrator disables a code
DisablePromo ==
    /\ \E c \in Codes :
         /\ promos[c].present /\ promos[c].status = "active"
         /\ promos' = [promos EXCEPT ![c].status = "disabled"]
    /\ UNCHANGED <<now, redemptions, txs, subs, plans, usage, aux, req>>

(* -------------------------------- clock -------------------------------- *)

Tick ==
    /\ now < MaxNow
    /\ now' = now + 1
    /\ UNCHANGED <<store, req>>

(* ---------------------------- promo scenario --------------------------- *)

PromoDoc(n, e) ==
    [present |-> TRUE, status |-> "active", expires_at |-> e,
     duration_days |-> PromoDays, max_uses |-> n, used_count |-> 0]

InitPromo ==
    /\ now = 0
    /\ \E n \in 1..MaxUses, e \in {0, 1} :
           promos = [c \in AllCodes |-> IF c \in Codes THEN PromoDoc(n, e) ELSE NoDoc]
    /\ redemptions = {}
    /\ txs = [t \in 0..NumCalls |-> NoDoc]
    /\ subs = [u \in Users |-> NoDoc]
    /\ batches = {}
    /\ grants = {}
    /\ ai_requests = {}
    /\ ai_plans = {}
    /\ ai_threads = {}
    /\ ai_messages = 0
    /\ plans = [c \in PlanCodes |-> NoDoc]
    /\ usage = [u \in Users |-> NoDoc]
    /\ req = [p \in 1..NumCalls |-> Idle]

NextPromo ==
    \/ \E p \in DOMAIN req : activate_promo_find(p)
    \/ \E p \in DOMAIN req : activate_promo_tx_insert(p)
    \/ \E p \in DOMAIN req : activate_promo_redemption_insert(p)
    \/ \E p \in DOMAIN req : activate_promo_claim(p)
    \/ \E p \in DOMAIN req : activate_promo_find_existing(p)
    \/ \E p \in DOMAIN req : activate_promo_rollback(p)
    \/ \E p \in DOMAIN req : activate_promo_redemption_delete(p)
    \/ \E p \in DOMAIN req : activate_promo_tx_delete(p)
    \/ \E p \in DOMAIN req : upsert_subscription_find(p)
    \/ \E p \in DOMAIN req : upsert_subscription_write(p)
    \/ \E p \in DOMAIN req : upsert_subscription_fail(p)
    \/ Tick

SpecPromo == InitPromo /\ [][NextPromo]_vars

(* ------------------- promo scenario with store failures --------------- *)

\* the promo scenario, in which the store may also fail a compensation step
NextFault ==
    \/ \E p \in DOMAIN req : activate_promo_find(p)
    \/ \E p \in DOMAIN req : activate_promo_tx_insert(p)
    \/ \E p \in DOMAIN req : activate_promo_redemption_insert(p)
    \/ \E p \in DOMAIN req : activate_promo_claim(p)
    \/ \E p \in DOMAIN req : activate_promo_find_existing(p)
    \/ \E p \in DOMAIN req : activate_promo_rollback(p)
    \/ \E p \in DOMAIN req : activate_promo_redemption_delete(p)
    \/ \E p \in DOMAIN req : activate_promo_tx_delete(p)
    \/ \E p \in DOMAIN req : activate_promo_rollback_fail(p)
    \/ \E p \in DOMAIN req : activate_promo_redemption_delete_fail(p)
    \/ \E p \in DOMAIN req : activate_promo_tx_delete_fail(p)
    \/ \E p \in DOMAIN req : upsert_subscription_find(p)
    \/ \E p \in DOMAIN req : upsert_subscription_write(p)
    \/ \E p \in DOMAIN req : upsert_subscription_fail(p)
    \/ Tick

SpecFault == InitPromo /\ [][NextFault]_vars

(* --------------------------- payment scenario -------------------------- *)

PlanDoc == [present |-> TRUE, duration_days |-> PlanDays, status |-> "active"]

\* a transaction as purchase leaves it
PendingTx(u, c) ==
    [present |-> TRUE, user |-> u, source |-> "web", plan_code |-> c,
     status |-> "pending"]

\* the catalog holds the plan and user 1 has started a purchase of it
\* (transaction 0 is pending)
InitPay ==
    /\ now = 0
    /\ promos = [c \in AllCodes |-> NoDoc]
    /\ redemptions = {}
    /\ txs = [t \in 0..NumCalls |-> IF t = 0 THEN PendingTx(1, "month") ELSE NoDoc]
    /\ subs = [u \in Users |-> NoDoc]
    /\ batches = {}
    /\ grants = {}
    /\ ai_requests = {}
    /\ ai_plans = {}
    /\ ai_threads = {}
    /\ ai_messages = 0
    /\ plans = [c \in PlanCodes |-> PlanDoc]
    /\ usage = [u \in Users |-> NoDoc]
    /\ req = [p \in 1..NumCalls |-> Idle]

NextPay ==
    \/ \E p \in DOMAIN req : purchase_find_plan(p)
    \/ \E p \in DOMAIN req : purchase_tx_insert(p)
    \/ \E p \in DOMAIN req : purchase_sub_find(p)
    \/ \E p \in DOMAIN req : verify_purchase_get(p)
    \/ \E p \in DOMAIN req : verify_purchase_replay(p)
    \/ \E p \in DOMAIN req : verify_purchase_find_plan(p)
    \/ \E p \in DOMAIN req : verify_purchase_save_failed(p)
    \/ \E p \in DOMAIN req : verify_purchase_save_verified(p)
    \/ \E p \in DOMAIN req : yookassa_webhook_get(p)
    \/ \E p \in DOMAIN req : yookassa_webhook_find_plan(p)
    \/ \E p \in DOMAIN req : yookassa_webhook_save_verified(p)
    \/ \E p \in DOMAIN req : yookassa_webhook_save_failed(p)
    \/ \E p \in DOMAIN req : yookassa_webhook_save_other(p)
    \/ \E p \in DOMAIN req : upsert_subscription_find(p)
    \/ \E p \in DOMAIN req : upsert_subscription_write(p)
    \/ \E p \in DOMAIN req : upsert_subscription_fail(p)
    \/ RetirePlan
    \/ Tick

SpecPay == InitPay /\ [][NextPay]_vars

(* -------------------------- extension scenario ------------------------- *)

\* expiry dates of the subscriptions the extension starts from
MaxExpiry == 4
\* add_days ranges over 1..MaxAddDays
MaxAddDays == 3

\* a subscription as an earlier extension wrote it
StoredSub(started, expires, renew) ==
    [present |-> TRUE, plan_code |-> "month", source |-> "web",
     started_at |-> started, expires_at |-> expires,
     grace_until |-> expires + GraceDays, auto_renew |-> renew,
     last_transaction_id |-> 0, status |-> IF renew THEN "active" ELSE "canceled"]

\* one call upsert_subscription(user 1, "month", web, add_days, tx 0) at any
\* instant, on no subscription or on one that is running or has lapsed
InitExtend ==
    /\ now \in 0..MaxNow + 1
    /\ promos = [c \in AllCodes |-> NoDoc]
    /\ redemptions = {}
    /\ txs = [t \in 0..1 |-> IF t = 0 THEN [PendingTx(1, "month") EXCEPT !.status = "verified"]
                              ELSE NoDoc]
    /\ \E s \in {NoDoc} \cup {StoredSub(0, e, rn) : e \in 1..MaxExpiry, rn \in BOOLEAN} :
           subs = [u \in Users |-> IF u = 1 THEN s ELSE NoDoc]
    /\ batches = {}
    /\ grants = {}
    /\ ai_requests = {}
    /\ ai_plans = {}
    /\ ai_threads = {}
    /\ ai_messages = 0
    /\ plans = [c \in PlanCodes |-> PlanDoc]
    /\ usage = [u \in Users |-> NoDoc]
    /\ \E d \in 1..MaxAddDays :
           req = [p \in 1..1 |->
                    [Idle EXCEPT !.pc = "up_find", !.kind = "extend", !.user = 1,
                                 !.tx = 0, !.plan_code = "month", !.source = "web",
                                 !.add_days = d, !.u_now = now]]

NextExtend ==
    \/ \E p \in DOMAIN req : upsert_subscription_find(p)
    \/ \E p \in DOMAIN req : upsert_subscription_write(p)
    \/ \E p \in DOMAIN req : upsert_subscription_fail(p)

SpecExtend == InitExtend /\ [][NextExtend]_vars

(* ------------------------ one-redemption scenario ---------------------- *)

\* a transaction as activate_promo leaves it
PromoTx(u) ==
    [present |-> TRUE, user |-> u, source |-> "promo", plan_code |-> "promo",
     status |-> "verified"]

\* one activate_promo request meets a code in any condition: unknown,
\* disabled, with or without an expiry date, used any number of times;
\* user 1 may have redeemed it before (transaction 0)
InitRedeem ==
    /\ now \in 0..MaxNow
    /\ \E d \in {NoDoc} \cup
               {[PromoDoc(n, e) EXCEPT !.status = st, !.used_count = k] :
                    n \in 1..MaxUses, e \in 0..MaxNow + 1,
                    st \in {"active", "disabled"}, k \in 0..MaxUses} :
         \E before \in BOOLEAN :
           /\ d.present => d.used_count <= d.max_uses
           /\ before => (d.present /\ d.used_count >= 1)
           /\ promos = [c \in AllCodes |-> IF c \in Codes THEN d ELSE NoDoc]
           /\ redemptions = IF before
                            THEN {[user |-> 1, code |-> c, tx |-> 0] : c \in Codes}
                            ELSE {}
           /\ txs = [t \in 0..1 |-> IF t = 0 /\ before THEN PromoTx(1) ELSE NoDoc]
           /\ subs = [u \in Users |->
                        IF u = 1 /\ before
                        THEN [StoredSub(0, PromoDays, TRUE) EXCEPT
                                 !.plan_code = "promo", !.source = "promo"]
                        ELSE NoDoc]
    /\ batches = {}
    /\ grants = {}
    /\ ai_requests = {}
    /\ ai_plans = {}
    /\ ai_threads = {}
    /\ ai_messages = 0
    /\ plans = [c \in PlanCodes |-> NoDoc]
    /\ usage = [u \in Users |-> NoDoc]
    /\ req = [p \in 1..1 |-> Idle]

NextRedeem ==
    \/ \E p \in DOMAIN req : activate_promo_find(p)
    \/ \E p \in DOMAIN req : activate_promo_tx_insert(p)
    \/ \E p \in DOMAIN req : activate_promo_redemption_insert(p)
    \/ \E p \in DOMAIN req : activate_promo_claim(p)
    \/ \E p \in DOMAIN req : activate_promo_find_existing(p)
    \/ \E p \in DOMAIN req : activate_promo_rollback(p)
    \/ \E p \in DOMAIN req : activate_promo_redemption_delete(p)
    \/ \E p \in DOMAIN req : activate_promo_tx_delete(p)
    \/ \E p \in DOMAIN req : upsert_subscription_find(p)
    \/ \E p \in DOMAIN req : upsert_subscription_write(p)
    \/ \E p \in DOMAIN req : upsert_subscription_fail(p)
    \/ DisablePromo
    \/ Tick

SpecRedeem == InitRedeem /\ [][NextRedeem]_vars

(* ---------------------------- status scenario -------------------------- *)

\* a subscription of user 1 with any expiry and grace dates (0: none), read
\* at any instant
InitStatus ==
    /\ now \in 1..MaxExpiry + 1
    /\ promos = [c \in AllCodes |-> NoDoc]
    /\ redemptions = {}
    /\ txs = [t \in 0..1 |-> NoDoc]
    /\ \E s \in {NoDoc} \cup
               {[StoredSub(0, e, rn) EXCEPT !.grace_until = g] :
                    e \in 1..MaxExpiry, g \in 0..MaxExpiry + 1, rn \in BOOLEAN} :
           subs = [u \in Users |-> IF u = 1 THEN s ELSE NoDoc]
    /\ batches = {}
    /\ grants = {}
    /\ ai_requests = {}
    /\ ai_plans = {}
    /\ ai_threads = {}
    /\ ai_messages = 0
    /\ plans = [c \in PlanCodes |-> PlanDoc]
    /\ usage = [u \in Users |-> NoDoc]
    /\ req = [p \in 1..1 |-> Idle]

\* compute_subscription_status applied to a subscription object as a
\* caller may hand it over, also one without expires_at
compute_subscription_status_call(p) ==
    /\ Arrives(p)
    /\ \E e \in 0..MaxExpiry, g \in 0..MaxExpiry + 1, rn \in BOOLEAN :
         LET sub == [StoredSub(0, e, rn) EXCEPT !.grace_until = g] IN
         req' = [req EXCEPT ![p] =
                   [Finish([@ EXCEPT !.kind = "compute_status"], "ok")
                       EXCEPT !.arg = sub,
                              !.out = compute_subscription_status(sub, now)]]
    /\ UNCHANGED <<now, store>>

NextStatus ==
    \/ \E p \in DOMAIN req : get_subscription(p)
    \/ \E p \in DOMAIN req : compute_subscription_status_call(p)

SpecStatus == InitStatus /\ [][NextStatus]_vars

(* ---------------------------- cancel scenario -------------------------- *)

\* users 1 and 2 with or without a subscription, running or lapsed,
\* renewing or already canceled
InitCancel ==
    /\ now \in 0..MaxNow
    /\ promos = [c \in AllCodes |-> NoDoc]
    /\ redemptions = {}
    /\ txs = [t \in 0..NumCalls |-> NoDoc]
    /\ subs \in [Users -> {NoDoc} \cup
                          {StoredSub(0, e, rn) : e \in 1..MaxExpiry, rn \in BOOLEAN}]
    /\ batches = {}
    /\ grants = {}
    /\ ai_requests = {}
    /\ ai_plans = {}
    /\ ai_threads = {}
    /\ ai_messages = 0
    /\ plans = [c \in PlanCodes |-> PlanDoc]
    /\ usage = [u \in Users |-> NoDoc]
    /\ req = [p \in 1..NumCalls |-> Idle]

NextCancel ==
    \/ \E p \in DOMAIN req : cancel_subscription_find(p)
    \/ \E p \in DOMAIN req : cancel_subscription_save(p)
    \/ \E p \in DOMAIN req : get_subscription(p)

SpecCancel == InitCancel /\ [][NextCancel]_vars

(* --------------------------- lifetime scenario ------------------------- *)

\* upsert_subscription(user_id, plan_code, source, add_days, tx_id) is
\* entered with the duration of the plan or of the promo code:
\* now = utcnow()
upsert_subscription_call(p) ==
    /\ Arrives(p)
    /\ \E u \in Users, d \in {PlanDays, PromoDays} :
         req' = [req EXCEPT ![p] =
                   [@ EXCEPT !.pc = "up_find", !.kind = "extend", !.user = u,
                             !.tx = NoTx, !.plan_code = "month",
                             !.source = "web", !.add_days = d, !.u_now = now]]
    /\ UNCHANGED <<now, store>>

\* extensions and cancels of the users' subscriptions in any order, as days
\* pass; user 1 starts without a subscription or with one the service wrote
InitLife ==
    /\ now = 0
    /\ promos = [c \in AllCodes |-> NoDoc]
    /\ redemptions = {}
    /\ txs = [t \in 0..NumCalls |-> NoDoc]
    /\ \E s \in {NoDoc} \cup {StoredSub(0, e, rn) : e \in 1..MaxExpiry, rn \in BOOLEAN} :
           subs = [u \in Users |-> IF u = 1 THEN s ELSE NoDoc]
    /\ batches = {}
    /\ grants = {}
    /\ ai_requests = {}
    /\ ai_plans = {}
    /\ ai_threads = {}
    /\ ai_messages = 0
    /\ plans = [c \in PlanCodes |-> PlanDoc]
    /\ usage = [u \in Users |-> NoDoc]
    /\ req = [p \in 1..NumCalls |-> Idle]

NextLife ==
    \/ \E p \in DOMAIN req : upsert_subscription_call(p)
    \/ \E p \in DOMAIN req : upsert_subscription_find(p)
    \/ \E p \in DOMAIN req : upsert_subscription_write(p)
    \/ \E p \in DOMAIN req : upsert_subscription_fail(p)
    \/ \E p \in DOMAIN req : cancel_subscription_find(p)
    \/ \E p \in DOMAIN req : cancel_subscription_save(p)
    \/ Tick

SpecLife == InitLife /\ [][NextLife]_vars

(* ----------------------------- is_premium_user ------------------------ *)

\* what is_premium_user returns for the subscription found, at instant t:
\* a grace or expiry date in the future, else the stored status
IsPremium(sub, t) ==
    IF ~sub.present THEN FALSE
    ELSE IF sub.grace_until # 0 /\ sub.grace_until > t THEN TRUE
    ELSE IF sub.expires_at # 0 /\ sub.expires_at > t THEN TRUE
    ELSE sub.status \in {"active", "grace"}

\* is_premium_user(user_id): Subscription.find_one, now = utcnow(), answer
is_premium_user(p) ==
    /\ Arrives(p)
    /\ \E u \in Users :
         LET r == [req[p] EXCEPT !.kind = "is_premium", !.user = u] IN
         req' = [req EXCEPT ![p] =
                   Finish(r, IF IsPremium(subs[u], now) THEN "premium"
                             ELSE "not_premium")]
    /\ UNCHANGED <<now, store>>

\* the grace window passes: the clock moves on by GraceDays
TickGrace ==
    /\ now <= MaxNow
    /\ now' = now + GraceDays
    /\ UNCHANGED <<store, req>>

\* subscriptions are created, extended and canceled, days and then the
\* grace window pass, and is_premium_user is asked
InitPremium ==
    /\ now = 0
    /\ promos = [c \in AllCodes |-> NoDoc]
    /\ redemptions = {}
    /\ txs = [t \in 0..NumCalls |-> NoDoc]
    /\ subs = [u \in Users |-> NoDoc]
    /\ batches = {}
    /\ grants = {}
    /\ ai_requests = {}
    /\ ai_plans = {}
    /\ ai_threads = {}
    /\ ai_messages = 0
    /\ plans = [c \in PlanCodes |-> PlanDoc]
    /\ usage = [u \in Users |-> NoDoc]
    /\ req = [p \in 1..NumCalls |-> Idle]

NextPremium ==
    \/ \E p \in DOMAIN req : upsert_subscription_call(p)
    \/ \E p \in DOMAIN req : upsert_subscription_find(p)
    \/ \E p \in DOMAIN req : upsert_subscription_write(p)
    \/ \E p \in DOMAIN req : upsert_subscription_fail(p)
    \/ \E p \in DOMAIN req : cancel_subscription_find(p)
    \/ \E p \in DOMAIN req : cancel_subscription_save(p)
    \/ \E p \in DOMAIN req : is_premium_user(p)
    \/ Tick
    \/ TickGrace

SpecPremium == InitPremium /\ [][NextPremium]_vars

(* ------------------------------ AI endpoints --------------------------- *)

\* the record get_or_create_usage inserts
NewUsage == [present |-> TRUE, base_limit |-> 1, extra_from_rewarded |-> 0,
             used |-> 0]

\* a limit check that lets a call through when used equals the limit
LimitReachedAboveOnly(rec) ==
    rec.used > rec.base_limit + rec.extra_from_rewarded

\* usage.used >= usage.base_limit + usage.extra_from_rewarded
LimitReached(rec) ==
    rec.used >= rec.base_limit + rec.extra_from_rewarded

\* a row of ai_requests; the request p that inserts it gives it its id
AiRequestRow(p, u, t) == [id |-> p, user |-> u, type |-> t]

\* a row of ai_plans; the request p that inserts it gives it its id
AiPlanRow(p, u, v, of) ==
    [id |-> p, user |-> u, version |-> v, reroll_of_plan_id |-> of]

\* AiRequest.find_one(user_id, type reroll, created_at in the month)
\* is not None
free_reroll_used_in_period(u) ==
    \E x \in ai_requests : x.user = u /\ x.type = "reroll"

\* what build_limits reports for the usage record it got
LimitsOut(rec, reroll_used) ==
    LET total == rec.base_limit + rec.extra_from_rewarded
        remaining == Max(0, total - rec.used)
    IN  <<rec.base_limit, rec.extra_from_rewarded, rec.used, remaining,
          remaining > 0, reroll_used>>

\* how a call that ran build_limits ends
LimitsResult(r) ==
    IF r.kind = "rewarded_grant"
    THEN (IF r.granted THEN "granted" ELSE "not_granted")
    ELSE "ok"

\* the caller of get_or_create_usage goes on with the record rec:
\* ai_generate_plan raises 403 or sets usage.used += 1 on its copy,
\* ai_rewarded_grant sets usage.extra_from_rewarded += 1 on its copy, both
\* then call usage.save(); build_limits returns its report, which ends
\* ai_limits and ai_rewarded_grant
AfterUsage(r, rec) ==
    IF r.cont = "generate"
    THEN IF LimitReached(rec)
         THEN Finish(r, "limit_reached")
         ELSE [r EXCEPT !.pc = "ai_usage_save",
                        !.usage = [rec EXCEPT !.used = @ + 1]]
    ELSE IF r.cont = "grant"
    THEN [r EXCEPT !.pc = "ai_usage_save",
                   !.usage = [rec EXCEPT !.extra_from_rewarded = @ + 1]]
    ELSE [Finish(r, LimitsResult(r))
             EXCEPT !.out = LimitsOut(rec, r.reroll_used)]

\* ai_generate_plan: is_premium_user; a premium user skips the usage
\* record
ai_generate_plan_premium(p) ==
    /\ Arrives(p)
    /\ \E u \in Users :
         LET r == [req[p] EXCEPT !.kind = "generate_plan", !.user = u] IN
         req' = [req EXCEPT ![p] =
                   IF IsPremium(subs[u], now)
                   THEN [r EXCEPT !.pc = "ai_request_insert"]
                   ELSE [r EXCEPT !.pc = "ai_usage_find", !.cont = "generate"]]
    /\ UNCHANGED <<now, store>>

\* get_or_create_usage: AiUsageMonthly.find_one(user_id, period); a record
\* found is returned to the caller
get_or_create_usage_find(p) ==
    /\ req[p].pc = "ai_usage_find"
    /\ LET rec == usage[req[p].user] IN
       req' = [req EXCEPT ![p] =
                 IF rec.present
                 THEN AfterUsage([req[p] EXCEPT !.saw = "found"], rec)
                 ELSE [@ EXCEPT !.pc = "ai_usage_insert", !.saw = "none"]]
    /\ UNCHANGED <<now, store>>

\* get_or_create_usage: rec.insert(), refused by the unique index on
\* (user_id, period) when the record appeared meanwhile
get_or_create_usage_insert(p) ==
    /\ req[p].pc = "ai_usage_insert"
    /\ LET u == req[p].user IN
       IF usage[u].present
       THEN /\ req' = [req EXCEPT ![p] =
                        Finish([@ EXCEPT !.err = "duplicate_key"], "duplicate_key")]
            /\ UNCHANGED usage
       ELSE /\ usage' = [usage EXCEPT ![u] = NewUsage]
            /\ req' = [req EXCEPT ![p] =
                        AfterUsage([@ EXCEPT !.writes = @ + 1], NewUsage)]
    /\ UNCHANGED <<now, promos, redemptions, txs, subs, plans, aux>>

\* usage.save() writes the whole record read, as changed on the copy;
\* ai_generate_plan goes on to its inserts, ai_rewarded_grant to
\* build_limits
usage_save(p) ==
    /\ req[p].pc = "ai_usage_save"
    /\ usage' = [usage EXCEPT ![req[p].user] = req[p].usage]
    /\ req' = [req EXCEPT ![p] =
                 [@ EXCEPT !.pc = IF req[p].cont = "generate"
                                  THEN "ai_request_insert" ELSE "bl_premium",
                           !.usage = NoDoc, !.cont = "limits",
                           !.writes = @ + 1]]
    /\ UNCHANGED <<now, promos, redemptions, txs, subs, plans, aux>>

\* AiRequest(user_id, type, ...).insert() of ai_generate_plan,
\* ai_reroll_plan, ai_adjust_plan and ai_chat; ai_chat goes on to the
\* thread it was given, if any, the others to their plan
ai_request_insert(p) ==
    /\ req[p].pc = "ai_request_insert"
    /\ ai_requests' = ai_requests \cup
                         {AiRequestRow(p, req[p].user, req[p].kind)}
    /\ req' = [req EXCEPT ![p] =
                 [@ EXCEPT !.pc = IF req[p].kind # "chat" THEN "ai_plan_insert"
                                  ELSE IF req[p].thread # NoTx
                                       THEN "ch_thread_get"
                                  ELSE "ch_thread_insert",
                           !.writes = @ + 1]]
    /\ UNCHANGED <<now, promos, redemptions, txs, subs, plans, usage, batches,
                   grants, ai_plans, ai_threads, ai_messages>>

\* plan.insert() of ai_generate_plan and ai_adjust_plan (version 1) and
\* new_plan.insert() of ai_reroll_plan (the next version of the plan
\* rerolled); the response model is then built without its required field
\* request_id, which raises a ValidationError
ai_plan_insert(p) ==
    /\ req[p].pc = "ai_plan_insert"
    /\ ai_plans' = ai_plans \cup
                     {IF req[p].kind = "reroll"
                      THEN AiPlanRow(p, req[p].user, req[p].version + 1,
                                     req[p].plan_id)
                      ELSE AiPlanRow(p, req[p].user, 1, NoTx)}
    /\ req' = [req EXCEPT ![p] =
                 [Finish([@ EXCEPT !.err = "validation_error"],
                         "validation_error") EXCEPT !.writes = @ + 1]]
    /\ UNCHANGED <<now, promos, redemptions, txs, subs, plans, usage, batches,
                   grants, ai_requests, ai_threads, ai_messages>>

\* ids of the plans a reroll may name: a plan has the id of the request
\* that stored it
PlanIds == 1..NumCalls

\* ai_reroll_plan: is_premium_user; only a user who is not premium has the
\* free reroll checked
ai_reroll_plan_premium(p) ==
    /\ Arrives(p)
    /\ \E u \in Users, id \in PlanIds :
         req' = [req EXCEPT ![p] =
                   [@ EXCEPT !.kind = "reroll", !.user = u, !.plan_id = id,
                             !.pc = IF IsPremium(subs[u], now)
                                    THEN "rr_plan_get" ELSE "rr_reroll_find"]]
    /\ UNCHANGED <<now, store>>

\* ai_reroll_plan: free_reroll_used_in_period; 403 when the month's free
\* reroll is used
ai_reroll_plan_free(p) ==
    /\ req[p].pc = "rr_reroll_find"
    /\ req' = [req EXCEPT ![p] =
                 IF free_reroll_used_in_period(req[p].user)
                 THEN Finish(@, "reroll_used")
                 ELSE [@ EXCEPT !.pc = "rr_plan_get"]]
    /\ UNCHANGED <<now, store>>

\* ai_reroll_plan: AiPlan.get(plan_id); 404 unless the plan exists and is
\* the caller's
ai_reroll_plan_get(p) ==
    /\ req[p].pc = "rr_plan_get"
    /\ LET found == {x \in ai_plans : x.id = req[p].plan_id} IN
       req' = [req EXCEPT ![p] =
                 IF \E x \in found : x.user = req[p].user
                 THEN [@ EXCEPT !.pc = "ai_request_insert",
                                !.version = (CHOOSE x \in found : TRUE).version]
                 ELSE Finish(@, "plan_not_found")]
    /\ UNCHANGED <<now, store>>

\* ai_adjust_plan: is_premium_user; 403 unless premium
ai_adjust_plan_premium(p) ==
    /\ Arrives(p)
    /\ \E u \in Users :
         LET r == [req[p] EXCEPT !.kind = "adjust", !.user = u] IN
         req' = [req EXCEPT ![p] =
                   IF IsPremium(subs[u], now)
                   THEN [r EXCEPT !.pc = "ai_request_insert"]
                   ELSE Finish(r, "premium_required")]
    /\ UNCHANGED <<now, store>>

\* thread_id of ai_chat: none, or the id of a thread, which is the id of
\* the request that stored it
ThreadIds == {NoTx} \cup 1..NumCalls

\* ai_chat: is_premium_user; 403 unless premium
ai_chat_premium(p) ==
    /\ Arrives(p)
    /\ \E u \in Users, t \in ThreadIds :
         LET r == [req[p] EXCEPT !.kind = "chat", !.user = u, !.thread = t] IN
         req' = [req EXCEPT ![p] =
                   IF IsPremium(subs[u], now)
                   THEN [r EXCEPT !.pc = "ai_request_insert"]
                   ELSE Finish(r, "premium_required")]
    /\ UNCHANGED <<now, store>>

\* ai_chat: AiChatThread.get(thread_id); a thread that is missing or
\* somebody else's is replaced by a new one
ai_chat_thread_get(p) ==
    /\ req[p].pc = "ch_thread_get"
    /\ req' = [req EXCEPT ![p] =
                 IF [id |-> req[p].thread, user |-> req[p].user] \in ai_threads
                 THEN [@ EXCEPT !.pc = "ch_user_message"]
                 ELSE [@ EXCEPT !.pc = "ch_thread_insert"]]
    /\ UNCHANGED <<now, store>>

\* ai_chat: thread.insert() of the new thread
ai_chat_thread_insert(p) ==
    /\ req[p].pc = "ch_thread_insert"
    /\ ai_threads' = ai_threads \cup {[id |-> p, user |-> req[p].user]}
    /\ req' = [req EXCEPT ![p] =
                 [@ EXCEPT !.pc = "ch_user_message", !.thread = p,
                           !.writes = @ + 1]]
    /\ UNCHANGED <<now, promos, redemptions, txs, subs, plans, usage, batches,
                   grants, ai_requests, ai_plans, ai_messages>>

\* ai_chat: AiChatMessage(role user).insert()
ai_chat_user_message(p) ==
    /\ req[p].pc = "ch_user_message"
    /\ ai_messages' = ai_messages + 1
    /\ req' = [req EXCEPT ![p] =
                 [@ EXCEPT !.pc = "ch_assistant_message", !.writes = @ + 1]]
    /\ UNCHANGED <<now, promos, redemptions, txs, subs, plans, usage, batches,
                   grants, ai_requests, ai_plans, ai_threads>>

\* ai_chat: AiChatMessage(role assistant).insert(); AiChatOut is then
\* built without its required fields user_message_id and
\* assistant_message_id, which raises a ValidationError
ai_chat_assistant_message(p) ==
    /\ req[p].pc = "ch_assistant_message"
    /\ ai_messages' = ai_messages + 1
    /\ req' = [req EXCEPT ![p] =
                 [Finish([@ EXCEPT !.err = "validation_error"],
                         "validation_error") EXCEPT !.writes = @ + 1]]
    /\ UNCHANGED <<now, promos, redemptions, txs, subs, plans, usage, batches,
                   grants, ai_requests, ai_plans, ai_threads>>

\* ai_limits: build_limits is entered, is_premium_user
ai_limits(p) ==
    /\ Arrives(p)
    /\ \E u \in Users :
         req' = [req EXCEPT ![p] =
                   [@ EXCEPT !.pc = "bl_reroll", !.kind = "ai_limits",
                             !.user = u, !.cont = "limits",
                             !.premium = IsPremium(subs[u], now)]]
    /\ UNCHANGED <<now, store>>

\* build_limits inside ai_rewarded_grant: is_premium_user
build_limits_premium(p) ==
    /\ req[p].pc = "bl_premium"
    /\ req' = [req EXCEPT ![p] =
                 [@ EXCEPT !.pc = "bl_reroll",
                           !.premium = IsPremium(subs[req[p].user], now)]]
    /\ UNCHANGED <<now, store>>

\* build_limits: free_reroll_used_in_period; the premium user gets the
\* report without a usage record
build_limits_reroll(p) ==
    /\ req[p].pc = "bl_reroll"
    /\ LET used == free_reroll_used_in_period(req[p].user) IN
       req' = [req EXCEPT ![p] =
                 IF req[p].premium
                 THEN [Finish(@, LimitsResult(req[p]))
                          EXCEPT !.out = <<"premium", used>>]
                 ELSE [@ EXCEPT !.pc = "ai_usage_find", !.reroll_used = used]]
    /\ UNCHANGED <<now, store>>

\* nonces and providers of the rewarded grants, as stripped; the empty
\* ones are refused
Nonces == {"", "n1"}

Providers == {"", "ads"}

\* ai_rewarded_grant: 400 for an empty nonce or provider, else
\* RewardedGrant.find_one(nonce); a nonce already stored grants nothing
ai_rewarded_grant_find(p) ==
    /\ Arrives(p)
    /\ \E u \in Users, n \in Nonces, pr \in Providers :
         LET r == [req[p] EXCEPT !.kind = "rewarded_grant", !.user = u,
                                 !.nonce = n]
         IN  req' = [req EXCEPT ![p] =
                       IF n = "" THEN Finish(r, "invalid_nonce")
                       ELSE IF pr = "" THEN Finish(r, "invalid_provider")
                       ELSE IF n \in grants
                            THEN [r EXCEPT !.pc = "bl_premium", !.cont = "limits"]
                       ELSE [r EXCEPT !.pc = "rg_insert"]]
    /\ UNCHANGED <<now, store>>

\* ai_rewarded_grant: RewardedGrant(...).insert(), refused by the unique
\* index on nonce when the nonce was stored meanwhile
ai_rewarded_grant_insert(p) ==
    /\ req[p].pc = "rg_insert"
    /\ IF req[p].nonce \in grants
       THEN /\ req' = [req EXCEPT ![p] =
                        Finish([@ EXCEPT !.err = "duplicate_key"], "duplicate_key")]
            /\ UNCHANGED grants
       ELSE /\ grants' = grants \cup {req[p].nonce}
            /\ req' = [req EXCEPT ![p] =
                        [@ EXCEPT !.pc = "rg_premium", !.granted = TRUE,
                                  !.writes = @ + 1]]
    /\ UNCHANGED <<now, promos, redemptions, txs, subs, plans, usage, batches,
                   ai_requests, ai_plans, ai_threads, ai_messages>>

\* ai_rewarded_grant: is_premium_user; only a user who is not premium gets
\* the extra use
ai_rewarded_grant_premium(p) ==
    /\ req[p].pc = "rg_premium"
    /\ req' = [req EXCEPT ![p] =
                 IF IsPremium(subs[req[p].user], now)
                 THEN [@ EXCEPT !.pc = "bl_premium", !.cont = "limits"]
                 ELSE [@ EXCEPT !.pc = "ai_usage_find", !.cont = "grant"]]
    /\ UNCHANGED <<now, store>>

\* a usage record as the service left it: within its limit
StoredUsage(extra, used) ==
    [present |-> TRUE, base_limit |-> 1, extra_from_rewarded |-> extra,
     used |-> used]

\* concurrent calls of the AI endpoints; user 1 has no subscription and no
\* usage record for the month or one within its limit, user 2 may have a
\* running subscription
InitAi ==
    /\ now = 0
    /\ promos = [c \in AllCodes |-> NoDoc]
    /\ redemptions = {}
    /\ txs = [t \in 0..NumCalls |-> NoDoc]
    /\ \E s \in {NoDoc, StoredSub(0, MaxExpiry, TRUE)} :
           subs = [u \in Users |-> IF u = 2 THEN s ELSE NoDoc]
    /\ batches = {}
    /\ grants = {}
    /\ ai_requests = {}
    /\ ai_plans = {}
    /\ ai_threads = {}
    /\ ai_messages = 0
    /\ plans = [c \in PlanCodes |-> PlanDoc]
    /\ \E d \in {NoDoc} \cup
                {rec \in {StoredUsage(e, k) : e \in 0..MaxExtra,
                                              k \in 0..MaxExtra + 1} :
                     rec.used <= rec.base_limit + rec.extra_from_rewarded} :
           usage = [u \in Users |-> IF u = 1 THEN d ELSE NoDoc]
    /\ req = [p \in 1..NumCalls |-> Idle]

NextAi ==
    \/ \E p \in DOMAIN req : ai_generate_plan_premium(p)
    \/ \E p \in DOMAIN req : get_or_create_usage_find(p)
    \/ \E p \in DOMAIN req : get_or_create_usage_insert(p)
    \/ \E p \in DOMAIN req : usage_save(p)
    \/ \E p \in DOMAIN req : ai_request_insert(p)
    \/ \E p \in DOMAIN req : ai_plan_insert(p)
    \/ \E p \in DOMAIN req : ai_reroll_plan_premium(p)
    \/ \E p \in DOMAIN req : ai_reroll_plan_free(p)
    \/ \E p \in DOMAIN req : ai_reroll_plan_get(p)
    \/ \E p \in DOMAIN req : ai_adjust_plan_premium(p)
    \/ \E p \in DOMAIN req : ai_chat_premium(p)
    \/ \E p \in DOMAIN req : ai_chat_thread_get(p)
    \/ \E p \in DOMAIN req : ai_chat_thread_insert(p)
    \/ \E p \in DOMAIN req : ai_chat_user_message(p)
    \/ \E p \in DOMAIN req : ai_chat_assistant_message(p)
    \/ \E p \in DOMAIN req : ai_limits(p)
    \/ \E p \in DOMAIN req : build_limits_premium(p)
    \/ \E p \in DOMAIN req : build_limits_reroll(p)
    \/ \E p \in DOMAIN req : ai_rewarded_grant_find(p)
    \/ \E p \in DOMAIN req : ai_rewarded_grant_insert(p)
    \/ \E p \in DOMAIN req : ai_rewarded_grant_premium(p)

SpecAi == InitAi /\ [][NextAi]_vars

(* ---------------------------- mixed scenario --------------------------- *)

\* a promo code (or none yet); the plan catalog with a pending purchase of
\* user 1, who has no subscription yet or one that is running, or the
\* catalog still empty and nothing bought
Init ==
    /\ now = 0
    /\ \E d \in {NoDoc} \cup {PromoDoc(n, e) : n \in 1..MaxUses, e \in {0, 1}} :
           promos = [c \in AllCodes |-> IF c \in Codes THEN d ELSE NoDoc]
    /\ redemptions = {}
    /\ \/ /\ plans = [c \in PlanCodes |-> PlanDoc]
          /\ txs = [t \in 0..NumCalls |->
                      IF t = 0 THEN PendingTx(1, "month") ELSE NoDoc]
          /\ \E s \in {NoDoc, StoredSub(0, PlanDays, TRUE)} :
                 subs = [u \in Users |-> IF u = 1 THEN s ELSE NoDoc]
       \/ /\ plans = [c \in PlanCodes |-> NoDoc]
          /\ txs = [t \in 0..NumCalls |-> NoDoc]
          /\ subs = [u \in Users |-> NoDoc]
    /\ batches = {}
    /\ grants = {}
    /\ ai_requests = {}
    /\ ai_plans = {}
    /\ ai_threads = {}
    /\ ai_messages = 0
    /\ usage = [u \in Users |-> NoDoc]
    /\ req = [p \in 1..NumCalls |-> Idle]

Next ==
    \/ \E p \in DOMAIN req : activate_promo_find(p)
    \/ \E p \in DOMAIN req : activate_promo_tx_insert(p)
    \/ \E p \in DOMAIN req : activate_promo_redemption_insert(p)
    \/ \E p \in DOMAIN req : activate_promo_claim(p)
    \/ \E p \in DOMAIN req : activate_promo_find_existing(p)
    \/ \E p \in DOMAIN req : activate_promo_rollback(p)
    \/ \E p \in DOMAIN req : activate_promo_redemption_delete(p)
    \/ \E p \in DOMAIN req : activate_promo_tx_delete(p)
    \/ \E p \in DOMAIN req : purchase_find_plan(p)
    \/ \E p \in DOMAIN req : purchase_tx_insert(p)
    \/ \E p \in DOMAIN req : purchase_sub_find(p)
    \/ \E p \in DOMAIN req : verify_purchase_get(p)
    \/ \E p \in DOMAIN req : verify_purchase_replay(p)
    \/ \E p \in DOMAIN req : verify_purchase_find_plan(p)
    \/ \E p \in DOMAIN req : verify_purchase_save_failed(p)
    \/ \E p \in DOMAIN req : verify_purchase_save_verified(p)
    \/ \E p \in DOMAIN req : yookassa_webhook_get(p)
    \/ \E p \in DOMAIN req : yookassa_webhook_find_plan(p)
    \/ \E p \in DOMAIN req : yookassa_webhook_save_verified(p)
    \/ \E p \in DOMAIN req : yookassa_webhook_save_failed(p)
    \/ \E p \in DOMAIN req : yookassa_webhook_save_other(p)
    \/ \E p \in DOMAIN req : upsert_subscription_find(p)
    \/ \E p \in DOMAIN req : upsert_subscription_write(p)
    \/ \E p \in DOMAIN req : upsert_subscription_fail(p)
    \/ \E p \in DOMAIN req : get_subscription(p)
    \/ \E p \in DOMAIN req : cancel_subscription_find(p)
    \/ \E p \in DOMAIN req : cancel_subscription_save(p)
    \/ \E p \in DOMAIN req : create_promo_find(p)
    \/ \E p \in DOMAIN req : create_promo_insert(p)
    \/ \E p \in DOMAIN req : create_plan_find(p)
    \/ \E p \in DOMAIN req : create_plan_insert(p)
    \/ RetirePlan
    \/ Tick

Spec == Init /\ [][Next]_vars

(* ---------------------------- codes scenario --------------------------- *)

\* every operation that reads or writes promo codes, the batches
\* included, next to the purchases: a promo code without expiry (or none
\* yet), the plan catalog and a pending purchase of user 1
InitCodes ==
    /\ now = 0
    /\ \E d \in {NoDoc} \cup {PromoDoc(n, 0) : n \in 1..MaxUses} :
           promos = [c \in AllCodes |-> IF c \in Codes THEN d ELSE NoDoc]
    /\ redemptions = {}
    /\ plans = [c \in PlanCodes |-> PlanDoc]
    /\ txs = [t \in 0..NumCalls |->
                IF t = 0 THEN PendingTx(1, "month") ELSE NoDoc]
    /\ subs = [u \in Users |-> NoDoc]
    /\ batches = {}
    /\ grants = {}
    /\ ai_requests = {}
    /\ ai_plans = {}
    /\ ai_threads = {}
    /\ ai_messages = 0
    /\ usage = [u \in Users |-> NoDoc]
    /\ req = [p \in 1..NumCalls |-> Idle]

NextCodes ==
    \/ \E p \in DOMAIN req : activate_promo_find(p)
    \/ \E p \in DOMAIN req : activate_promo_tx_insert(p)
    \/ \E p \in DOMAIN req : activate_promo_redemption_insert(p)
    \/ \E p \in DOMAIN req : activate_promo_claim(p)
    \/ \E p \in DOMAIN req : activate_promo_find_existing(p)
    \/ \E p \in DOMAIN req : activate_promo_rollback(p)
    \/ \E p \in DOMAIN req : activate_promo_redemption_delete(p)
    \/ \E p \in DOMAIN req : activate_promo_tx_delete(p)
    \/ \E p \in DOMAIN req : purchase_find_plan(p)
    \/ \E p \in DOMAIN req : purchase_tx_insert(p)
    \/ \E p \in DOMAIN req : purchase_sub_find(p)
    \/ \E p \in DOMAIN req : verify_purchase_get(p)
    \/ \E p \in DOMAIN req : verify_purchase_replay(p)
    \/ \E p \in DOMAIN req : verify_purchase_find_plan(p)
    \/ \E p \in DOMAIN req : verify_purchase_save_failed(p)
    \/ \E p \in DOMAIN req : verify_purchase_save_verified(p)
    \/ \E p \in DOMAIN req : yookassa_webhook_get(p)
    \/ \E p \in DOMAIN req : yookassa_webhook_find_plan(p)
    \/ \E p \in DOMAIN req : yookassa_webhook_save_verified(p)
    \/ \E p \in DOMAIN req : yookassa_webhook_save_failed(p)
    \/ \E p \in DOMAIN req : yookassa_webhook_save_other(p)
    \/ \E p \in DOMAIN req : upsert_subscription_find(p)
    \/ \E p \in DOMAIN req : upsert_subscription_write(p)
    \/ \E p \in DOMAIN req : upsert_subscription_fail(p)
    \/ \E p \in DOMAIN req : get_subscription(p)
    \/ \E p \in DOMAIN req : cancel_subscription_find(p)
    \/ \E p \in DOMAIN req : cancel_subscription_save(p)
    \/ \E p \in DOMAIN req : create_promo_find(p)
    \/ \E p \in DOMAIN req : create_promo_insert(p)
    \/ \E p \in DOMAIN req : create_promo_batch_insert(p)
    \/ \E p \in DOMAIN req : create_promo_batch_code_insert(p)
    \/ RetirePlan
    \/ Tick

SpecCodes == InitCodes /\ [][NextCodes]_vars

(* ======================================================================= *)
(*                               properties                                *)
(* ======================================================================= *)

Procs == DOMAIN req

Done(p) == req[p].pc = "done"

\* the step was taken by request p
Acted(p) == req'[p] # req[p]

\* the activate_promo requests for code c / by user u for code c
PromoCalls(c) == {p \in Procs : req[p].kind = "activate_promo" /\ req[p].code = c}
PromoCallsBy(u, c) == {p \in PromoCalls(c) : req[p].user = u}

RECURSIVE SumDelta(_)
\* the net change of used_count made by the requests in S
SumDelta(S) ==
    IF S = {} THEN 0
    ELSE LET p == CHOOSE x \in S : TRUE IN req[p].delta + SumDelta(S \ {p})

Min(a, b) == IF a <= b THEN a ELSE b

\* no store operation has failed
NoStoreFailure == \A p \in Procs : req[p].err \notin {"store_error", "duplicate_key"}

(* ---- C1 ---- *)
\* C1: no over-redemption.  When all the activate_promo calls for a code
\* that stays redeemable (active, no expiry date) have returned, the
\* callers were distinct users and no store operation failed, then with
\* max_uses = N and N + K calls exactly N succeeded, K failed with
\* 'limit reached', and the stored used_count is N (with fewer than N
\* calls all of them succeeded).
C1_NoOverRedemption ==
    \A c \in AllCodes :
      LET calls == PromoCalls(c)
          ok == {p \in calls : req[p].result = "ok"}
          limit == {p \in calls : req[p].result = "limit"}
          n == Min(promos[c].max_uses, Cardinality(calls))
      IN  ( /\ promos[c].present /\ promos[c].expires_at = 0
            /\ \A p \in Procs : Done(p)
            /\ \A p, q \in calls : p # q => req[p].user # req[q].user
            /\ NoStoreFailure )
          => /\ Cardinality(ok) = n
             /\ Cardinality(limit) = Cardinality(calls) - n
             /\ promos[c].used_count = n

\* more callers than uses: one redeemed, one was refused at the cap
C1_Witness ==
    \E c \in Codes : \E p, q \in PromoCalls(c) :
        /\ \A r \in Procs : Done(r)
        /\ req[p].user # req[q].user
        /\ promos[c].expires_at = 0 /\ promos[c].max_uses = 1
        /\ req[p].result = "ok" /\ req[q].result = "limit"
        /\ promos[c].used_count = 1

(* ---- C2 ---- *)
\* C2: in every reachable state, whatever the interleaving of
\* activate_promo calls and their rollbacks, every promo code has
\* used_count <= max_uses.
C2_UsedCountWithinMax ==
    \A c \in AllCodes : promos[c].present => promos[c].used_count <= promos[c].max_uses

\* the cap is reached and a later claim was refused
C2_Witness ==
    \E c \in Codes : \E p \in PromoCalls(c) :
        /\ promos[c].used_count = promos[c].max_uses
        /\ req[p].result = "limit"

(* ---- C3 ---- *)
\* C3: no double redemption.  Of the activate_promo calls of one user for
\* one code at most one succeeds, together they raise used_count by at
\* most one, and once one has succeeded (the code staying redeemable and
\* no store operation failing) every other one fails with 'already used'.
C3_NoDoubleRedemption ==
    \A c \in AllCodes : \A u \in Users :
      LET mine == PromoCallsBy(u, c) IN
        /\ Cardinality({p \in mine : req[p].result = "ok"}) <= 1
        /\ SumDelta(mine) <= 1
        /\ \A p, q \in mine :
              ( /\ p # q /\ req[p].result = "ok" /\ Done(q)
                /\ promos[c].expires_at = 0 /\ NoStoreFailure )
              => req[q].result = "already_used"

\* one user, two calls: one redeemed, the other was told 'already used'
C3_Witness ==
    \E c \in Codes : \E p, q \in PromoCalls(c) :
        /\ p # q /\ req[p].user = req[q].user
        /\ req[p].result = "ok" /\ req[q].result = "already_used"
        /\ promos[c].used_count = 1

(* ---- C4 ---- *)
\* C4: rollback correctness.  used_count is the sum of what the requests
\* have claimed and not given back, and a call whose subscription
\* extension failed has, when it returns, given its claim back (its net
\* effect on used_count is zero), left no redemption row of its own for
\* the (user, code) pair, and reports the failure.
C4_RollbackCorrectness ==
    /\ \A c \in AllCodes : promos[c].present =>
           promos[c].used_count = SumDelta(PromoCalls(c))
    /\ \A p \in Procs :
         ( /\ Done(p) /\ req[p].kind = "activate_promo"
           /\ req[p].err \in {"store_error", "duplicate_key"} )
         => /\ req[p].delta = 0
            /\ \A x \in redemptions :
                  (x.user = req[p].user /\ x.code = req[p].code) => x.tx # req[p].tx
            /\ req[p].result = req[p].err

\* the only call failed at the extension: the count is back at 0 and no
\* row is left
C4_Witness ==
    \E p \in Procs :
        /\ Done(p) /\ req[p].err = "store_error" /\ req[p].writes = 6
        /\ \A q \in Procs : q # p => req[q].pc = "idle"
        /\ promos[req[p].code].used_count = 0
        /\ redemptions = {}
        /\ ~txs[req[p].tx].present

(* ---- C5 ---- *)
\* C5: idempotent verification.  A verify_purchase call that returns
\* successfully has extended the subscription exactly once if it found the
\* transaction not yet verified, and not at all if it found it verified;
\* no step of a call that found the transaction verified writes to the
\* store, so the subscription it returns is the stored one, unchanged.
C5_FirstExtendsOnce ==
    \A p \in Procs :
        (Done(p) /\ req[p].kind = "verify" /\ req[p].result = "ok")
        => req[p].ext = (IF req[p].saw = "verified" THEN 0 ELSE 1)

C5_ReplayWritesNothing ==
    \A p \in Procs :
        (Acted(p) /\ req'[p].kind = "verify" /\ req'[p].saw = "verified")
        => UNCHANGED store

C5_IdempotentVerification ==
    []C5_FirstExtendsOnce /\ [][C5_ReplayWritesNothing]_vars

\* two calls for transaction 0: the first extended, the second replayed,
\* and the subscription is the one the first call wrote
C5_Witness ==
    \E p, q \in Procs :
        /\ p # q /\ Done(p) /\ Done(q)
        /\ req[p].kind = "verify" /\ req[q].kind = "verify"
        /\ req[p].tx = 0 /\ req[q].tx = 0
        /\ req[p].result = "ok" /\ req[q].result = "ok"
        /\ req[p].saw = "pending" /\ req[p].ext = 1
        /\ req[q].saw = "verified" /\ req[q].ext = 0 /\ req[q].writes = 0
        /\ subs[1].present /\ subs[1].last_transaction_id = 0
        /\ subs[1].expires_at = PlanDays

(* ---- C6 ---- *)
\* C6: webhook replay is idempotent: no step of a webhook call with a
\* success status that found the transaction already verified changes a
\* subscription.
C6_WebhookReplayIdempotent ==
    [][\A p \in Procs :
          ( /\ Acted(p) /\ req'[p].kind = "webhook"
            /\ req'[p].st \in {"succeeded", "paid", "success"}
            /\ req'[p].saw = "verified" )
          => UNCHANGED subs]_vars

(* ---- C7 ---- *)
\* C7: a transaction reaches a terminal status at most once: no step of a
\* verify_purchase or webhook call that found the stored status verified
\* or failed changes that status.
C7_TerminalOnce ==
    [][\A p \in Procs :
          ( /\ Acted(p) /\ req'[p].kind \in {"verify", "webhook"}
            /\ req'[p].saw \in {"verified", "failed"}
            /\ txs[req'[p].tx].present )
          => /\ txs'[req'[p].tx].present
             /\ txs'[req'[p].tx].status = txs[req'[p].tx].status]_vars

(* ---- C8 ---- *)
\* C8: a call of verify_purchase or of the webhook that has marked the
\* transaction verified had found its plan active, and, unless the store
\* failed it, extended the subscription.
C8_VerifiedOnlyWithPlan ==
    \A p \in Procs :
        (Done(p) /\ req[p].kind \in {"verify", "webhook"} /\ req[p].marked)
        => /\ req[p].plan_found
           /\ (req[p].result = "ok" => req[p].ext = 1)

(* ---- C9 ---- *)
\* C9: no step of a webhook call with provider status failed, canceled or
\* refunded changes a subscription, and the step that ends the call
\* leaves the transaction's status failed.
C9_WebhookFailureFrame ==
    [][\A p \in Procs :
          ( /\ Acted(p) /\ req'[p].kind = "webhook"
            /\ req'[p].st \in {"failed", "canceled", "refunded"} )
          => /\ UNCHANGED subs
             /\ (req'[p].pc = "done" /\ req'[p].result = "ok")
                   => /\ txs'[req'[p].tx].present
                      /\ txs'[req'[p].tx].status = "failed"]_vars

\* a refund arrived for the transaction that paid for the subscription:
\* the transaction is failed, the subscription is the one it bought
C9_Witness ==
    \E p \in Procs :
        /\ Done(p) /\ req[p].kind = "webhook" /\ req[p].st = "refunded"
        /\ req[p].result = "ok" /\ req[p].saw = "verified"
        /\ txs[req[p].tx].status = "failed"
        /\ subs[req[p].user].present
        /\ subs[req[p].user].last_transaction_id = req[p].tx
        /\ subs[req[p].user].expires_at = PlanDays

(* ---- C10 ---- *)
\* C10: additive stacking.  The write of upsert_subscription sets
\* expires_at to max(now, existing.expires_at) + add_days when the
\* subscription it read has expires_at > now, and to now + add_days when
\* there was none or it had lapsed.
C10_AdditiveStacking ==
    [][\A p \in Procs :
          (req[p].pc = "up_write" /\ req'[p].pc = "done" /\ req'[p].result = "ok")
          => LET e == req[p].existing
                 t == req[p].u_now
                 d == req[p].add_days
             IN  subs'[req[p].user].expires_at =
                   (IF e.present /\ e.expires_at > t
                    THEN Max(t, e.expires_at) + d
                    ELSE t + d)]_vars

\* a subscription that was still running was extended: the new expiry is
\* later than now + the longest grant, so it counts from the old expiry
C10_Witness ==
    \E p \in Procs :
        /\ Done(p) /\ req[p].result = "ok"
        /\ subs[req[p].user].started_at < now
        /\ subs[req[p].user].expires_at > now + MaxAddDays

(* ---- C11 ---- *)
\* C11: the status compute_subscription_status returns for a subscription
\* object, and get_subscription for a stored one, at the instant now is
\* (expired, False, False) if expires_at is missing,
\* (active, True, False) if now < expires_at and auto_renew,
\* (canceled, True, False) if now < expires_at and not auto_renew,
\* (grace, False, True) if expires_at <= now < grace_until, and
\* (expired, False, False) otherwise; is_active and in_grace are never
\* both true.
C11_ComputeStatus ==
    [][\A p \in Procs :
          ( /\ Acted(p)
            /\ \/ req'[p].kind = "compute_status"
               \/ /\ req'[p].kind = "get_subscription"
                  /\ subs[req'[p].user].present )
          => LET sub == IF req'[p].kind = "compute_status" THEN req'[p].arg
                        ELSE subs[req'[p].user]
                 o == req'[p].out
             IN  /\ o = (IF sub.expires_at = 0
                            THEN <<"expired", FALSE, FALSE>>
                         ELSE IF now < sub.expires_at /\ sub.auto_renew
                            THEN <<"active", TRUE, FALSE>>
                         ELSE IF now < sub.expires_at /\ ~sub.auto_renew
                            THEN <<"canceled", TRUE, FALSE>>
                         ELSE IF sub.expires_at <= now /\ sub.grace_until # 0
                                 /\ now < sub.grace_until
                            THEN <<"grace", FALSE, TRUE>>
                         ELSE <<"expired", FALSE, FALSE>>)
                 /\ ~(o[2] /\ o[3])]_vars

\* the function was handed a subscription without expires_at whose grace
\* date is still ahead: expired
C11_Witness ==
    \E p \in Procs :
        /\ Done(p) /\ req[p].kind = "compute_status"
        /\ req[p].arg.present /\ req[p].arg.expires_at = 0
        /\ req[p].arg.grace_until > now /\ req[p].arg.auto_renew
        /\ req[p].out = <<"expired", FALSE, FALSE>>

(* ---- C12 ---- *)
\* C12, as stated: the atomic claim matches exactly when, at the instant
\* of the update, the code exists, is active, has no expiry date or one
\* later than now, and used_count < max_uses; when it matches it raises
\* used_count by exactly 1, changes nothing else, and returns the document
\* as it is after the increment; when it does not match it returns nothing
\* and leaves the store as it was.
C12_AtomicClaim ==
    [][\A p \in Procs :
          (Acted(p) /\ req[p].pc = "ap_claim")
          => LET c == req[p].code
                 d == promos[c]
                 ok == /\ d.present
                       /\ d.status = "active"
                       /\ (d.expires_at = 0 \/ d.expires_at > now)
                       /\ d.used_count < d.max_uses
             IN  /\ req'[p].claimed.present <=> ok
                 /\ ok => /\ promos'[c] = [d EXCEPT !.used_count = d.used_count + 1]
                           /\ req'[p].claimed = promos'[c]
                           /\ UNCHANGED <<redemptions, txs, subs, plans, usage>>
                 /\ ~ok => UNCHANGED store]_vars

\* C12, amended: the same, with the expiry date compared with the clock
\* that promo_atomic_claim read when it built the filter, before the update
\* was sent, and not with the clock at the instant of the update.
C12_AtomicClaimFilterClock ==
    [][\A p \in Procs :
          (Acted(p) /\ req[p].pc = "ap_claim")
          => LET c == req[p].code
                 d == promos[c]
                 ok == /\ d.present
                       /\ d.status = "active"
                       /\ (d.expires_at = 0 \/ d.expires_at > req[p].c_now)
                       /\ d.used_count < d.max_uses
             IN  /\ req'[p].claimed.present <=> ok
                 /\ ok => /\ promos'[c] = [d EXCEPT !.used_count = d.used_count + 1]
                           /\ req'[p].claimed = promos'[c]
                           /\ UNCHANGED <<redemptions, txs, subs, plans, usage>>
                 /\ ~ok => UNCHANGED store]_vars

\* the last use of a code was claimed: the document returned carries the
\* count after the increment, which is the cap
C12_Witness ==
    \E p \in Procs :
        /\ req[p].pc = "ap_find_existing"
        /\ req[p].claimed.present
        /\ req[p].claimed.used_count = promos[req[p].code].max_uses
        /\ promos[req[p].code].used_count = req[p].claimed.used_count
        /\ promos[req[p].code].max_uses > 1

(* ---- C13 ---- *)
\* C13: when the code activate_promo looks up is unknown, disabled,
\* expired or has duration_days <= 0, the call is rejected at that step
\* with the matching error and has no side effects: the step leaves the
\* store unchanged (no transaction, no redemption row, used_count and the
\* subscriptions as they were) and the call has written nothing.
C13_RejectedAtValidation ==
    \A p \in Procs :
        ( /\ Done(p) /\ req[p].kind = "activate_promo"
          /\ req[p].result \in {"invalid_code", "disabled", "expired",
                                 "invalid_duration"} )
        => req[p].writes = 0 /\ req[p].tx = NoTx /\ req[p].delta = 0

C13_ValidationStep ==
    \A p \in Procs :
        (Acted(p) /\ req[p].pc = "idle" /\ req'[p].kind = "activate_promo")
        => LET d == promos[req'[p].code]
               bad == IF ~d.present THEN "invalid_code"
                      ELSE IF d.status # "active" THEN "disabled"
                      ELSE IF d.expires_at # 0 /\ now >= d.expires_at THEN "expired"
                      ELSE IF d.duration_days <= 0 THEN "invalid_duration"
                      ELSE "ok"
           IN  bad # "ok" => /\ req'[p].pc = "done"
                             /\ req'[p].result = bad
                             /\ UNCHANGED store

C13_ValidationNoSideEffects ==
    []C13_RejectedAtValidation /\ [][C13_ValidationStep]_vars

\* a disabled code that user 1 had redeemed was refused: the earlier row,
\* the count and the subscription are as they were, nothing was created
C13_Witness ==
    \E p \in Procs :
        /\ Done(p) /\ req[p].kind = "activate_promo"
        /\ req[p].result = "disabled" /\ req[p].writes = 0
        /\ \E x \in redemptions : x.tx = 0
        /\ ~txs[p].present
        /\ promos[req[p].code].used_count = 1
        /\ subs[1].present /\ subs[1].expires_at = PromoDays

(* ---- C14 ---- *)
\* C14: the redemption insert of activate_promo is refused exactly when a
\* row for the (user, code) pair exists; the call then deletes the
\* transaction it created and fails with 'already used', and none of its
\* steps changes used_count, the redemption rows or a subscription.
C14_DuplicateOutcome ==
    \A p \in Procs :
        (Done(p) /\ req[p].result = "already_used")
        => /\ req[p].tx # NoTx /\ ~txs[req[p].tx].present
           /\ req[p].delta = 0 /\ req[p].ext = 0 /\ req[p].writes = 2

C14_DuplicateSteps ==
    \A p \in Procs :
        Acted(p) =>
          /\ req[p].pc = "ap_red_insert"
                => ( req'[p].err = "already_used"
                     <=> \E x \in redemptions :
                            x.user = req[p].user /\ x.code = req[p].code )
          /\ req'[p].err = "already_used"
                => UNCHANGED <<promos, redemptions, subs>>

C14_DuplicateRedemption ==
    []C14_DuplicateOutcome /\ [][C14_DuplicateSteps]_vars

\* two calls of one user ran together: the second was refused while the
\* first had not claimed yet; its transaction is gone, the first one's
\* row is in place and used_count is still 0
C14_Witness ==
    \E p, q \in Procs :
        /\ p # q /\ req[p].user = req[q].user
        /\ Done(q) /\ req[q].result = "already_used"
        /\ ~txs[req[q].tx].present
        /\ req[p].pc = "ap_claim"
        /\ redemptions = {[user |-> req[p].user, code |-> req[p].code, tx |-> req[p].tx]}
        /\ promos[req[p].code].used_count = 0

(* ---- C15 ---- *)
\* C15: when the atomic claim of activate_promo returns no match, the call
\* deletes the redemption row and the transaction it created and fails
\* with 'limit reached': afterwards neither remains, used_count and the
\* subscriptions were not changed by the call, other users' rows are
\* untouched, and no row of that call is left to refuse a later attempt
\* of the same user.
C15_LimitOutcome ==
    \A p \in Procs :
        (Done(p) /\ req[p].result = "limit")
        => /\ req[p].tx # NoTx /\ ~txs[req[p].tx].present
           /\ \A x \in redemptions : x.tx # req[p].tx
           /\ req[p].delta = 0 /\ req[p].ext = 0 /\ req[p].writes = 4

C15_LimitSteps ==
    \A p \in Procs :
        Acted(p) =>
          /\ (req[p].pc = "ap_claim" /\ ~req'[p].claimed.present)
                => req'[p].err = "limit"
          /\ req'[p].err = "limit"
                => /\ UNCHANGED <<promos, subs>>
                   /\ redemptions' \subseteq redemptions
                   /\ \A x \in redemptions \ redemptions' : x.tx = req[p].tx

C15_LimitReached ==
    []C15_LimitOutcome /\ [][C15_LimitSteps]_vars

\* one user tried twice while the code ran out of time: both attempts
\* reached the claim and got 'limit reached', so the second was not
\* refused by a row the first had left
C15_Witness ==
    \E p, q \in Procs :
        /\ p # q /\ req[p].user = req[q].user /\ req[p].code = req[q].code
        /\ Done(p) /\ Done(q)
        /\ req[p].result = "limit" /\ req[q].result = "limit"
        /\ redemptions = {}
        /\ ~txs[req[p].tx].present /\ ~txs[req[q].tx].present

(* ---- C16 ---- *)
\* C16: used_count of an existing promo code is changed only by the
\* atomic claim, by +1, and by the atomic rollback, by -1: a step of any
\* other operation (create_promo on an existing code, purchase,
\* verify_purchase, the webhook, cancel, get_subscription) leaves it as it
\* was, and the code stays stored.
C16_UsedCountFrame ==
    [][\A c \in AllCodes :
          promos[c].present =>
            /\ promos'[c].present
            /\ promos'[c].used_count # promos[c].used_count
                  => \E p \in Procs :
                        /\ Acted(p) /\ req[p].kind = "activate_promo"
                        /\ req[p].code = c
                        /\ \/ /\ req[p].pc = "ap_claim"
                              /\ promos'[c].used_count = promos[c].used_count + 1
                           \/ /\ req[p].pc = "ap_rollback"
                              /\ promos'[c].used_count = promos[c].used_count - 1
            /\ \A p \in Procs :
                  (Acted(p) /\ req'[p].kind # "activate_promo")
                  => promos'[c].used_count = promos[c].used_count]_vars

\* a code that had been redeemed once was created again: the call was
\* refused and the count is still 1
C16_Witness ==
    \E p, q \in Procs :
        /\ Done(p) /\ req[p].kind = "activate_promo" /\ req[p].result = "ok"
        /\ Done(q) /\ req[q].kind = "create_promo" /\ req[q].result = "conflict"
        /\ req[q].code = req[p].code
        /\ promos[req[p].code].used_count = 1

(* ---- C17 ---- *)
\* C17: cancel without a Subscription record changes nothing and returns
\* ok; otherwise it sets auto_renew to false and leaves expires_at,
\* grace_until, plan_code and last_transaction_id as they were; a cancel
\* of a subscription that is already canceled leaves the record as it is
\* (calling it twice gives the state of calling it once).
C17_CancelStep ==
    \A p \in Procs :
        (Acted(p) /\ req'[p].kind = "cancel") =>
          LET u == req'[p].user
              old == subs[u]
              new == subs'[u]
          IN  /\ \A v \in Users : v # u => subs'[v] = subs[v]
              /\ UNCHANGED <<promos, redemptions, txs, plans, usage>>
              /\ ~old.present => /\ new = old
                                 /\ req'[p].pc = "done" /\ req'[p].result = "ok"
              /\ (old.present /\ req[p].pc = "idle") => new = old
              /\ (old.present /\ req[p].pc = "ca_save") =>
                    /\ new.present /\ new.auto_renew = FALSE
                    /\ new.expires_at = old.expires_at
                    /\ new.grace_until = old.grace_until
                    /\ new.plan_code = old.plan_code
                    /\ new.last_transaction_id = old.last_transaction_id
                    /\ new.started_at = old.started_at
                    /\ (old.auto_renew = FALSE /\ old.status = "canceled")
                          => new = old
                    /\ req'[p].pc = "done" /\ req'[p].result = "ok"

C17_CancelIdempotent == [][C17_CancelStep]_vars

\* two cancels of one user have returned: the record is canceled with the
\* expiry and grace dates it had
C17_Witness ==
    \E p, q \in Procs : \E e \in 1..MaxExpiry :
        /\ p # q /\ Done(p) /\ Done(q)
        /\ req[p].kind = "cancel" /\ req[q].kind = "cancel"
        /\ req[p].user = req[q].user
        /\ req[p].writes = 1 /\ req[q].writes = 1
        /\ subs[req[p].user] =
              [StoredSub(0, e, FALSE) EXCEPT !.status = "canceled"]

(* ---- C18 ---- *)
\* C18: a webhook call whose token does not match the configured token,
\* or that arrives when no token is configured, is rejected as
\* Unauthorized before any lookup and changes no transaction and no
\* subscription; a call with a valid token for an unknown transaction id
\* fails with 'transaction not found' and changes nothing.
C18_RejectedWroteNothing ==
    \A p \in Procs :
        ( /\ Done(p) /\ req[p].kind = "webhook"
          /\ req[p].result \in {"unauthorized", "tx_not_found"} )
        => req[p].writes = 0 /\ req[p].ext = 0 /\ ~req[p].marked

C18_TokenStep ==
    \A p \in Procs :
        (Acted(p) /\ req[p].pc = "idle" /\ req'[p].kind = "webhook") =>
          LET x == Strip(req'[p].token)
              env == Strip(req'[p].expected)
              valid == env # <<>> /\ x = env
          IN  /\ ~valid => /\ req'[p].pc = "done"
                            /\ req'[p].result = "unauthorized"
                            /\ req'[p].tx = NoTx /\ req'[p].txdoc = NoDoc
                            /\ UNCHANGED store
              /\ (valid /\ req'[p].tx # NoTx /\ ~txs[req'[p].tx].present)
                    => /\ req'[p].pc = "done"
                       /\ req'[p].result = "tx_not_found"
                       /\ UNCHANGED store
              /\ req'[p].result \in {"unauthorized", "tx_not_found"}
                    => UNCHANGED store

C18_WebhookRejections ==
    []C18_RejectedWroteNothing /\ [][C18_TokenStep]_vars

\* no token is configured and none was sent: refused, and the pending
\* transaction is still pending
C18_Witness ==
    \E p \in Procs :
        /\ Done(p) /\ req[p].kind = "webhook" /\ req[p].result = "unauthorized"
        /\ req[p].token = <<>> /\ req[p].expected = <<>>
        /\ txs[0].present /\ txs[0].status = "pending"
        /\ \A u \in Users : ~subs[u].present

(* ---- C19 ---- *)
\* C19: a duplicate-key violation raised by a store insert during
\* activate_promo never reaches the caller as a raw store exception: no
\* activate_promo call ends with the DuplicateKeyError of the store.
C19_DuplicateKeyTranslated ==
    \A p \in Procs :
        (Done(p) /\ req[p].kind = "activate_promo")
        => req[p].result # "duplicate_key"

(* ---- C20 ---- *)
\* C20: once step 5 of activate_promo has failed, each compensation step
\* is attempted whatever happened to the one before it (the decrement is
\* followed by the redemption delete, that by the transaction delete),
\* and the call ends with the error of step 5.
C20_CompensationBestEffort ==
    [][\A p \in Procs :
          ( /\ Acted(p) /\ req[p].kind = "activate_promo"
            /\ req[p].err \in {"store_error", "duplicate_key"} )
          => /\ req[p].pc = "ap_rollback" => req'[p].pc = "ap_red_delete"
             /\ req[p].pc = "ap_red_delete" => req'[p].pc = "ap_tx_delete"
             /\ req[p].pc = "ap_tx_delete"
                   => req'[p].pc = "done" /\ req'[p].result = req[p].err]_vars

(* ---- C21 ---- *)
\* C21: activate_promo creates transaction, then redemption row, then
\* claims, and undoes them in the reverse order, so that (the compensation
\* steps not failing) in every reachable state the transaction a
\* redemption row refers to exists.
C21_NoDanglingRedemption ==
    \A x \in redemptions : x.tx \in DOMAIN txs /\ txs[x.tx].present

\* one call is between its redemption delete and its transaction delete
\* after a failed extension, while another user's row is in place
C21_Witness ==
    \E p, q \in Procs :
        /\ req[p].pc = "ap_tx_delete" /\ req[p].err = "store_error"
        /\ txs[req[p].tx].present
        /\ Done(q) /\ req[q].result = "ok" /\ req[q].kind = "activate_promo"
        /\ redemptions = {[user |-> req[q].user, code |-> req[q].code, tx |-> req[q].tx]}

(* ---- C22 ---- *)
\* C22: renewing never loses paid time: no step of any interleaving of
\* activate_promo, verify_purchase, webhook and cancel calls lowers the
\* expires_at of a stored subscription (or removes the subscription).
C22_ExpiryNeverDecreases ==
    [][\A u \in Users :
          subs[u].present
          => /\ subs'[u].present
             /\ subs'[u].expires_at >= subs[u].expires_at]_vars

(* ---- C23 ---- *)
\* C23: every successful extension is reflected in full: the write with
\* which an extension (promo redemption, purchase verification, webhook)
\* succeeds on a running subscription raises the stored expires_at by the
\* duration it grants, so that two successful extensions for different
\* transactions, also concurrent ones, raise it by the sum of both
\* durations.
C23_ExtensionsAddUp ==
    [][\A p \in Procs :
          ( /\ req[p].pc = "up_write"
            /\ req'[p].pc = "done" /\ req'[p].result = "ok"
            /\ \A q \in Procs : q # p => req[q].tx # req[p].tx
            /\ subs[req[p].user].present
            /\ subs[req[p].user].expires_at > req[p].u_now )
          => subs'[req[p].user].expires_at =
                subs[req[p].user].expires_at + req[p].add_days]_vars

(* ---- C24 ---- *)
\* C24: every successful extension (promo redemption, verify_purchase,
\* successful webhook) leaves the stored subscription with auto_renew true,
\* also when a cancel came before it: at every instant before the new
\* expiry the computed status is active, not canceled.
C24_ExtensionResetsAutoRenew ==
    [][\A p \in Procs :
          ( /\ req[p].kind \in {"activate_promo", "verify", "webhook"}
            /\ req[p].pc = "up_write"
            /\ req'[p].pc = "done" /\ req'[p].result = "ok" )
          => LET sub == subs'[req[p].user] IN
             /\ sub.present /\ sub.auto_renew
             /\ \A t \in 0..(sub.expires_at - 1) :
                    compute_subscription_status(sub, t) = <<"active", TRUE, FALSE>>]_vars

\* a cancel of user 1 wrote auto_renew false, an extension for the same user
\* succeeded after it, and the subscription renews again and is running
C24_Witness ==
    \E p, q \in Procs :
        /\ Done(p) /\ req[p].kind = "cancel" /\ req[p].writes = 1
        /\ Done(q) /\ req[q].kind \in {"activate_promo", "verify", "webhook"}
        /\ req[q].result = "ok" /\ req[q].ext = 1
        /\ req[p].user = req[q].user
        /\ subs[req[q].user].auto_renew
        /\ now < subs[req[q].user].expires_at
        /\ compute_subscription_status(subs[req[q].user], now)[1] = "active"

(* ---- C25 ---- *)
\* C25: every stored Subscription record has grace_until = expires_at + 30
\* days, in every state reached by extensions and cancels in any order and
\* interleaving.
C25_GraceWindow ==
    \A u \in Users :
        subs[u].present => subs[u].grace_until = subs[u].expires_at + GraceDays

\* an extension and a cancel of the same user both wrote the subscription,
\* whose expiry is no longer the one it started with
C25_Witness ==
    \E p, q \in Procs :
        /\ Done(p) /\ req[p].kind = "extend" /\ req[p].result = "ok"
        /\ req[p].ext = 1
        /\ Done(q) /\ req[q].kind = "cancel" /\ req[q].writes = 1
        /\ req[p].user = req[q].user
        /\ subs[req[p].user].expires_at > MaxExpiry
        /\ subs[req[p].user].grace_until = subs[req[p].user].expires_at + GraceDays

(* ---- C26 ---- *)
\* C26: promo_atomic_rollback lowers used_count by exactly 1 when it is
\* above 0 and leaves it alone otherwise, so used_count is never negative;
\* the slot a rollback releases is open to a later activate_promo.
C26_NeverNegative ==
    \A c \in AllCodes : promos[c].present => promos[c].used_count >= 0

C26_RollbackStep ==
    \A p \in Procs :
        (req[p].pc = "ap_rollback" /\ req'[p].pc = "ap_red_delete")
        => LET c == req[p].code IN
           /\ promos'[c].used_count =
                 IF promos[c].used_count > 0
                 THEN promos[c].used_count - 1
                 ELSE promos[c].used_count
           /\ \A d \in AllCodes \ {c} : promos'[d] = promos[d]

C26_RollbackReleasesSlot == []C26_NeverNegative /\ [][C26_RollbackStep]_vars

\* a code with a single use: one call claimed it, failed at the extension
\* and rolled back; the other call then claimed the released slot
C26_Witness ==
    \E p, q \in Procs :
        /\ Done(p) /\ req[p].kind = "activate_promo"
        /\ req[p].err = "store_error" /\ req[p].delta = 0 /\ req[p].writes = 6
        /\ Done(q) /\ req[q].kind = "activate_promo"
        /\ req[q].result = "ok" /\ req[q].delta = 1
        /\ req[q].code = req[p].code
        /\ promos[req[p].code].max_uses = 1
        /\ promos[req[p].code].used_count = 1

(* ---- C27 ---- *)
\* C27: of two verify_purchase calls for the same transaction that both
\* read its status as pending, at most one extends the subscription: the
\* two together write at most one extension, in every interleaving.
C27_ConcurrentVerifyOnce ==
    \A p, q \in Procs :
        ( /\ p # q
          /\ req[p].kind = "verify" /\ req[q].kind = "verify"
          /\ req[p].tx = req[q].tx
          /\ req[p].saw = "pending" /\ req[q].saw = "pending" )
        => req[p].ext + req[q].ext <= 1

(* ---- C28 ---- *)
\* C28: for every promo code used_count never exceeds the number of
\* PromoRedemption rows stored for the code, and the two are equal whenever
\* no activate_promo call is in flight and no store operation has failed.
C28_CountMatchesRows ==
    \A c \in AllCodes :
        promos[c].present
        => LET rows == {x \in redemptions : x.code = c} IN
           /\ promos[c].used_count <= Cardinality(rows)
           /\ ( /\ \A p \in PromoCalls(c) : Done(p)
                /\ NoStoreFailure )
              => promos[c].used_count = Cardinality(rows)

\* a code with a single use and two finished calls: one redeemed it, the
\* other inserted its row, found the limit reached and removed the row
C28_Witness ==
    \E p, q \in Procs :
        /\ Done(p) /\ Done(q)
        /\ req[p].kind = "activate_promo" /\ req[q].kind = "activate_promo"
        /\ req[p].code = req[q].code
        /\ req[p].result = "ok" /\ req[p].delta = 1
        /\ req[q].result = "limit" /\ req[q].writes = 4
        /\ promos[req[p].code].used_count = 1
        /\ Cardinality({x \in redemptions : x.code = req[p].code}) = 1

(* ---- C29 ---- *)
\* C29: is_premium_user answers true only while the subscription found is
\* running or its grace window is still open: for a subscription the
\* service created or extended, at an instant with now >= expires_at and
\* now >= grace_until the answer is false.
C29_PremiumOnlyWhileValid ==
    [][\A p \in Procs :
          ( /\ Acted(p) /\ req'[p].kind = "is_premium"
            /\ req'[p].result = "premium" )
          => LET sub == subs[req'[p].user] IN
             /\ sub.present
             /\ (now < sub.expires_at \/ now < sub.grace_until)]_vars

(* ---- C30 ---- *)
\* C30: the monthly usage record of a user never shows more uses than its
\* limit, used <= base_limit + extra_from_rewarded, whatever the
\* interleaving of concurrent ai_generate_plan calls; the call that finds
\* the limit reached is rejected and leaves the record as it is.
C30_WithinLimit ==
    \A u \in Users :
        usage[u].present
        => usage[u].used <= usage[u].base_limit + usage[u].extra_from_rewarded

C30_RejectedStep ==
    \A p \in Procs :
        ( /\ Acted(p)
          /\ req[p].pc = "ai_usage_find" /\ req[p].cont = "generate"
          /\ usage[req[p].user].present
          /\ LimitReached(usage[req[p].user]) )
        => /\ req'[p].pc = "done"
           /\ req'[p].result = "limit_reached"
           /\ req'[p].writes = 0
           /\ usage' = usage

C30_UsageWithinLimit == []C30_WithinLimit /\ [][C30_RejectedStep]_vars

\* two calls of one user without a subscription ran together on a record
\* with one use left: both passed the check, both saved, and the record
\* shows used = limit
C30_Witness ==
    \E p, q \in Procs :
        /\ p # q /\ Done(p) /\ Done(q)
        /\ req[p].kind = "generate_plan" /\ req[q].kind = "generate_plan"
        /\ req[p].user = req[q].user
        /\ req[p].result = "validation_error"
        /\ req[q].result = "validation_error"
        /\ req[p].saw = "found" /\ req[q].saw = "found"
        /\ req[p].writes = 3 /\ req[q].writes = 3
        /\ ~IsPremium(subs[req[p].user], now)
        /\ usage[req[p].user].used =
              usage[req[p].user].base_limit + usage[req[p].user].extra_from_rewarded

====
